---------------------------- MODULE Spec2Model ----------------------------
(***************************************************************************)
(* Model of PyLab's SCPI command definition and validation engine          *)
(* (src/pylab/communication/SCPI.py, commandset.py).                       *)
(*                                                                         *)
(* Python values are records tagged with their Python type.  Strings are   *)
(* sequences of one-character strings, so that endswith, strip, upper,     *)
(* str() and join are computed character by character.  A float is held    *)
(* in tenths (PyFloat(125) is 12.5).  A dict is a function whose DOMAIN is  *)
(* the set of keys present; JSON null is PyNone, a JSON list a PyList.  Sequence indices are     *)
(* 1-based here where the Python lists are 0-based.                        *)
(***************************************************************************)
EXTENDS Integers, Sequences, FiniteSets, TLC

VARIABLES
    catalog,    \* SCPICommandSet._command_set: base name -> command definition
    pc,         \* "idle": ready for a call; "done": validate_command has returned or raised
    command,    \* the command argument of the last validate_command call
    args,       \* the *args tuple of the last validate_command call
    result,     \* what that call returned or raised
    files,      \* the data directory: file name -> the document load_data_file reads
    loads,      \* the file names load_data_file has been called with, in call order
    warnings,   \* the messages the last call logged at warning level
    frames,     \* concurrent callers: caller -> the locals of its validate_command call
    cnx         \* the connection of a device: its status and what went through it

vars == <<catalog, pc, command, args, result, files, loads, warnings, frames, cnx>>

-----------------------------------------------------------------------------
(* Bounds of the model *)

\* longest *args tuple a call supplies
MaxArgs == 2

\* longest argument-definition list of the generated command
MaxDefs == 2

-----------------------------------------------------------------------------
(* Python values *)

PyNone == [t |-> "NoneType"]
PyBool(b) == [t |-> "bool", n |-> IF b THEN 1 ELSE 0]
PyInt(i) == [t |-> "int", n |-> i]
PyFloat(tenths) == [t |-> "float", n |-> tenths]
PyStr(chars) == [t |-> "str", s |-> chars]
PyList(items) == [t |-> "list", items |-> items]

\* isinstance(v, bool) / isinstance(v, int) / isinstance(v, (int, float)) / isinstance(v, str);
\* bool is a subclass of int
IsBool(v) == v.t = "bool"
IsInt(v) == v.t \in {"bool", "int"}
IsIntOrFloat(v) == v.t \in {"bool", "int", "float"}
IsStr(v) == v.t = "str"

\* the numeric value of a bool, int or float, in tenths
Tenths(v) == IF v.t = "float" THEN v.n ELSE 10 * v.n

\* Python's ==
RECURSIVE PyEq(_, _)
PyEq(a, b) ==
    IF IsIntOrFloat(a) /\ IsIntOrFloat(b) THEN Tenths(a) = Tenths(b)
    ELSE IF IsStr(a) /\ IsStr(b) THEN a.s = b.s
    ELSE IF a.t = "list" /\ b.t = "list"
    THEN /\ Len(a.items) = Len(b.items)
         /\ \A i \in 1..Len(a.items) : PyEq(a.items[i], b.items[i])
    ELSE a.t = "NoneType" /\ b.t = "NoneType"

-----------------------------------------------------------------------------
(* Python string operations, on sequences of characters *)

Lower == <<"a","b","c","d","e","f","g","h","i","j","k","l","m",
           "n","o","p","q","r","s","t","u","v","w","x","y","z">>
Capital == <<"A","B","C","D","E","F","G","H","I","J","K","L","M",
             "N","O","P","Q","R","S","T","U","V","W","X","Y","Z">>

UpperChar(c) ==
    IF \E i \in 1..26 : Lower[i] = c
    THEN Capital[CHOOSE i \in 1..26 : Lower[i] = c]
    ELSE c

\* str.upper()
Upper(s) == [i \in 1..Len(s) |-> UpperChar(s[i])]

\* str.isspace() of one ASCII character: space, tab, line feed, carriage return, form feed,
\* vertical tab (0x0b) and the four separators 0x1c..0x1f, the characters strip() takes
\* off both ends
IsSpace(c) == c \in {" ", "\t", "\n", "\r", "\f", "", "", "", "", ""}

RECURSIVE LStrip(_)
LStrip(s) == IF s # <<>> /\ IsSpace(Head(s)) THEN LStrip(Tail(s)) ELSE s

RECURSIVE RStrip(_)
RStrip(s) ==
    IF s # <<>> /\ IsSpace(s[Len(s)]) THEN RStrip(SubSeq(s, 1, Len(s) - 1)) ELSE s

\* str.strip()
Strip(s) == RStrip(LStrip(s))

\* str.endswith(c) for a one-character c
EndsWith(s, c) == s # <<>> /\ s[Len(s)] = c

Digits == <<"0","1","2","3","4","5","6","7","8","9">>

\* c is a decimal digit
IsDigit(c) == \E i \in 1..10 : Digits[i] = c

\* the number a string of decimal digits writes
RECURSIVE NatOf(_)
NatOf(s) ==
    IF s = <<>> THEN 0
    ELSE 10 * NatOf(SubSeq(s, 1, Len(s) - 1))
         + (CHOOSE d \in 0..9 : Digits[d + 1] = s[Len(s)])

RECURSIVE NatStr(_)
NatStr(n) ==
    IF n < 10 THEN <<Digits[n + 1]>>
    ELSE NatStr(n \div 10) \o <<Digits[(n % 10) + 1]>>

\* str(i) for an int
IntStr(i) == IF i < 0 THEN <<"-">> \o NatStr(0 - i) ELSE NatStr(i)

\* str(x) for a float held in tenths: repr keeps one fractional digit
FloatStr(tenths) ==
    LET mag == IF tenths < 0 THEN 0 - tenths ELSE tenths
    IN  (IF tenths < 0 THEN <<"-">> ELSE <<>>)
            \o NatStr(mag \div 10) \o <<".">> \o <<Digits[(mag % 10) + 1]>>

\* sep.join(parts)
RECURSIVE Join(_, _)
Join(sep, parts) ==
    IF parts = <<>> THEN <<>>
    ELSE IF Len(parts) = 1 THEN parts[1]
    ELSE parts[1] \o sep \o Join(sep, Tail(parts))

\* one character of a string as repr writes it between the quotes
ReprChar(c, quote) ==
    CASE c = "\\" -> <<"\\", "\\">>
      [] c = quote -> <<"\\", quote>>
      [] c = "\n" -> <<"\\", "n">>
      [] c = "\r" -> <<"\\", "r">>
      [] c = "\t" -> <<"\\", "t">>
      [] c = "" -> <<"\\", "x", "0", "7">>
      [] c = "" -> <<"\\", "x", "0", "8">>
      [] c = "" -> <<"\\", "x", "0", "b">>
      [] c = "\f" -> <<"\\", "x", "0", "c">>
      [] c = "" -> <<"\\", "x", "1", "c">>
      [] c = "" -> <<"\\", "x", "1", "d">>
      [] c = "" -> <<"\\", "x", "1", "e">>
      [] c = "" -> <<"\\", "x", "1", "f">>
      [] OTHER -> <<c>>

\* repr(s) for a string: in single quotes, in double quotes when it holds a single
\* quote and no double one
ReprStr(s) ==
    LET has(q) == \E i \in 1..Len(s) : s[i] = q
        quote == IF has("'") /\ ~has("\"") THEN "\"" ELSE "'"
    IN  <<quote>> \o Join(<<>>, [i \in 1..Len(s) |-> ReprChar(s[i], quote)]) \o <<quote>>

\* str(v) and repr(v): they differ for a string only; a list writes the repr of its items
RECURSIVE Repr(_)
Repr(v) ==
    CASE v.t = "str" -> ReprStr(v.s)
      [] v.t = "int" -> IntStr(v.n)
      [] v.t = "float" -> FloatStr(v.n)
      [] v.t = "bool" -> IF v.n = 1 THEN <<"T","r","u","e">> ELSE <<"F","a","l","s","e">>
      [] v.t = "list" ->
            <<"[">> \o Join(<<",", " ">>, [i \in 1..Len(v.items) |-> Repr(v.items[i])])
                \o <<"]">>
      [] OTHER -> <<"N","o","n","e">>
Str(v) == IF v.t = "str" THEN v.s ELSE Repr(v)

-----------------------------------------------------------------------------
(* Dictionaries: argument definitions and command definitions *)

\* key in d
Has(d, k) == k \in DOMAIN d

\* "k" in d and d["k"] is not None
IsSet(d, k) == Has(d, k) /\ d[k] # PyNone

\* mutant: every definition is taken as required
Required_Always(arg_def) == TRUE

\* arg_def.get("required", True)
Required(arg_def) == IF Has(arg_def, "required") THEN arg_def.required ELSE TRUE

\* arg_def.get("variadic", False)
Variadic(arg_def) == IF Has(arg_def, "variadic") THEN arg_def.variadic ELSE FALSE

-----------------------------------------------------------------------------
(* SCPICommandSet.validate_argument *)

\* the (is_ok, error_kind) tuple it returns, or the SCPIArgumentError("Definition", ...) it raises
ArgOk == [ok |-> TRUE, kind |-> "None", raised |-> ""]
ArgErr(kind) == [ok |-> FALSE, kind |-> kind, raised |-> ""]
ArgRaise(info) == [ok |-> FALSE, kind |-> "None", raised |-> info]

BoolWords == { <<"O","N">>, <<"O","F","F">>, <<"0">>, <<"1">>,
               <<"T","R","U","E">>, <<"F","A","L","S","E">> }

\* the basic type validation: TRUE when the argument passes it
TypeOk(argument, expected_type) ==
    CASE expected_type = "bool" ->
            IF IsBool(argument) THEN TRUE
            ELSE IF IsIntOrFloat(argument) THEN Tenths(argument) \in {0, 10}
            ELSE IF IsStr(argument) THEN Upper(Strip(argument.s)) \in BoolWords
            ELSE FALSE
      [] expected_type = "int" -> ~IsBool(argument) /\ IsInt(argument)
      [] expected_type = "float" -> ~IsBool(argument) /\ IsIntOrFloat(argument)
      [] expected_type = "str" -> IsStr(argument)

\* mutant: strings are compared as they are, letter case included
ValuesOk_CaseSensitive(argument, allowed) ==
    \E i \in 1..Len(allowed) : PyEq(allowed[i], argument)

\* the enumerated allowed values: TRUE when the argument is one of them
ValuesOk(argument, allowed) ==
    IF IsStr(argument)
    THEN \E i \in 1..Len(allowed) :
            \/ IsStr(allowed[i]) /\ Upper(allowed[i].s) = Upper(argument.s)
            \/ PyEq(allowed[i], argument)
    ELSE \E i \in 1..Len(allowed) : PyEq(allowed[i], argument)

\* low, high = argument_definition["range"], and None for both when the unpacking raises:
\* a list of two items unpacks, as does a string of two characters; nothing else does
RangePair(range) ==
    IF range.t = "list" /\ Len(range.items) = 2 THEN range.items
    ELSE IF range.t = "str" /\ Len(range.s) = 2
    THEN <<PyStr(<<range.s[1]>>), PyStr(<<range.s[2]>>)>>
    ELSE <<PyNone, PyNone>>

\* mutant: the upper bound is not checked
RangeOk_LowOnly(argument, range) ==
    LET low == RangePair(range)[1]
    IN  IF IsIntOrFloat(argument) /\ ~IsBool(argument)
        THEN ~(IsIntOrFloat(low) /\ Tenths(argument) < Tenths(low))
        ELSE TRUE

\* the numeric range validation: TRUE when the argument is within low..high
RangeOk(argument, range) ==
    LET low == RangePair(range)[1]
        high == RangePair(range)[2]
    IN  IF IsIntOrFloat(argument) /\ ~IsBool(argument)
        THEN /\ ~(IsIntOrFloat(low) /\ Tenths(argument) < Tenths(low))
             /\ ~(IsIntOrFloat(high) /\ Tenths(argument) > Tenths(high))
        ELSE TRUE

\* argument_definition.get("type") is None: the key is absent or its value is null
\* (a type name is a string and null a PyNone, compared here by their printed forms)
TypeMissing(argument_definition) ==
    \/ ~Has(argument_definition, "type")
    \/ ToString(argument_definition.type) = ToString(PyNone)

ValidateArgument(argument, argument_definition) ==
    IF TypeMissing(argument_definition)
    THEN ArgRaise("Argument definition missing type")
    ELSE IF argument = PyNone THEN ArgErr("type")
    ELSE IF ToString(argument_definition.type)
                \notin {ToString("bool"), ToString("int"), ToString("float"), ToString("str")}
    THEN ArgRaise("Unknown argument type")
    ELSE IF ~TypeOk(argument, argument_definition.type) THEN ArgErr("type")
    ELSE IF /\ IsSet(argument_definition, "values")
            /\ ~ValuesOk(argument, argument_definition.values.items)
    THEN ArgErr("value")
    ELSE IF /\ IsSet(argument_definition, "range")
            /\ ~RangeOk(argument, argument_definition.range)
    THEN ArgErr("value")
    ELSE ArgOk

-----------------------------------------------------------------------------
(* SCPICommandSet.validate_command *)

\* what a call gives back: the returned string, or the exception raised with its info text
Returned(cmd_string) == [exc |-> "None", info |-> "", value |-> cmd_string]
Raised(exc, info) == [exc |-> exc, info |-> info, value |-> <<>>]

\* mutant: a value failure is raised as a plain SCPIArgumentError
RaisedFor_NoValueError(error_kind, info) == Raised("SCPIArgumentError", info)

\* the exception raised for a failed validation of error_kind, with the given info
RaisedFor(error_kind, info) ==
    IF error_kind = "value" THEN Raised("SCPIArgumentValueError", info)
    ELSE Raised("SCPIArgumentError", info)

\* command.endswith("?") and the base name
IsQuery(cmd) == EndsWith(cmd, "?")
Base(cmd) == IF IsQuery(cmd) THEN SubSeq(cmd, 1, Len(cmd) - 1) ELSE cmd

\* mutant: an absent form is taken as supported with no arguments
ArgDefsOf_AbsentIsEmpty(cmd_def, is_query) ==
    LET form == IF is_query THEN "query" ELSE "set"
    IN  IF Has(cmd_def, form) THEN cmd_def[form] ELSE PyList(<<>>)

\* cmd_def.get("query" if is_query else "set"): PyNone when the key is absent or null
ArgDefsOf(cmd_def, is_query) ==
    LET form == IF is_query THEN "query" ELSE "set"
    IN  IF Has(cmd_def, form) THEN cmd_def[form] ELSE PyNone

\* mutant: the first definition is not asked whether it is required
NoArgsButRequired_AnyFirst(call_args, arg_defs) ==
    Len(call_args) = 0 /\ Len(arg_defs) # 0

\* the edge case checked before matching: no args given and the first definition required
NoArgsButRequired(call_args, arg_defs) ==
    Len(call_args) = 0 /\ Len(arg_defs) # 0 /\ Required(arg_defs[1])

\* the inner loop: candidate_def_idx from this_arg_def on, for one argument.
\* Gives the matched index, or the exception raised.
RECURSIVE ScanDefs(_, _, _, _)
ScanDefs(this_arg, arg_defs, candidate_def_idx, last_error_kind) ==
    IF candidate_def_idx > Len(arg_defs)
    THEN [matched_def_index |-> 0,
          raised |-> RaisedFor(last_error_kind,
                        "Unable to validate against any remaining argument definitions")]
    ELSE LET r == ValidateArgument(this_arg, arg_defs[candidate_def_idx])
         IN  IF r.raised # ""
             THEN [matched_def_index |-> 0, raised |-> Raised("SCPIArgumentError", r.raised)]
             ELSE IF r.ok
             THEN [matched_def_index |-> candidate_def_idx, raised |-> Returned(<<>>)]
             ELSE IF Required(arg_defs[candidate_def_idx])
             THEN [matched_def_index |-> 0,
                   raised |-> RaisedFor(r.kind, "Unable to validate against definition")]
             ELSE ScanDefs(this_arg, arg_defs, candidate_def_idx + 1, r.kind)

\* matched_args.setdefault(idx, []).append(value)
Record(matched_args, idx, value) ==
    [i \in DOMAIN matched_args \cup {idx} |->
        IF i = idx
        THEN (IF idx \in DOMAIN matched_args THEN matched_args[idx] ELSE <<>>) \o <<value>>
        ELSE matched_args[i]]

\* mutant: the cursor stays on the matched definition, variadic or not
NextArgDef_Stay(arg_defs, matched_def_index) == matched_def_index

\* mutant: the cursor moves past the matched definition, variadic or not
NextArgDef_Advance(arg_defs, matched_def_index) == matched_def_index + 1

\* this_arg_def for the next argument
NextArgDef(arg_defs, matched_def_index) ==
    IF Variadic(arg_defs[matched_def_index]) THEN matched_def_index
    ELSE matched_def_index + 1

\* mutant: the test is off by one
RanOutOfDefs_OffByOne(arg_defs, this_arg_def) == this_arg_def > Len(arg_defs) + 1

\* we ran out of definitions before we ran out of arguments
RanOutOfDefs(arg_defs, this_arg_def) == this_arg_def > Len(arg_defs)

\* the outer loop over args, from argument this_arg_val on
RECURSIVE MatchArgs(_, _, _, _, _)
MatchArgs(call_args, arg_defs, this_arg_val, this_arg_def, matched_args) ==
    IF this_arg_val > Len(call_args)
    THEN [raised |-> Returned(<<>>), matched_args |-> matched_args]
    ELSE IF RanOutOfDefs(arg_defs, this_arg_def)
    THEN [raised |-> Raised("SCPIArgumentError", "Too many arguments supplied?"),
          matched_args |-> matched_args]
    ELSE LET scan == ScanDefs(call_args[this_arg_val], arg_defs, this_arg_def, "None")
         IN  IF scan.raised.exc # "None"
             THEN [raised |-> scan.raised, matched_args |-> matched_args]
             ELSE MatchArgs(call_args, arg_defs, this_arg_val + 1,
                            NextArgDef(arg_defs, scan.matched_def_index),
                            Record(matched_args, scan.matched_def_index,
                                   call_args[this_arg_val]))

\* mutant: no default is ever filled in
FillsDefault_Never(arg_def) == FALSE

\* the default of a definition is filled in when the definition is optional and the default set
FillsDefault(arg_def) == ~Required(arg_def) /\ IsSet(arg_def, "default")

\* the loop filling in defaults, from definition def_idx on
RECURSIVE FillDefaults(_, _, _)
FillDefaults(arg_defs, def_idx, matched_args) ==
    IF def_idx > Len(arg_defs)
    THEN [raised |-> Returned(<<>>), matched_args |-> matched_args]
    ELSE IF def_idx \in DOMAIN matched_args \/ ~FillsDefault(arg_defs[def_idx])
    THEN FillDefaults(arg_defs, def_idx + 1, matched_args)
    ELSE LET r == ValidateArgument(arg_defs[def_idx].default, arg_defs[def_idx])
         IN  IF r.raised # ""
             THEN [raised |-> Raised("SCPIArgumentError", r.raised),
                   matched_args |-> matched_args]
             ELSE IF ~r.ok
             THEN [raised |-> RaisedFor(r.kind, "Default value invalid for definition"),
                   matched_args |-> matched_args]
             ELSE FillDefaults(arg_defs, def_idx + 1,
                               [i \in DOMAIN matched_args \cup {def_idx} |->
                                   IF i = def_idx THEN <<arg_defs[def_idx].default>>
                                   ELSE matched_args[i]])

\* mutant: a variadic definition gives its first value only
RECURSIVE CleanedArgs_FirstOnly(_, _, _)
CleanedArgs_FirstOnly(arg_defs, def_idx, matched_args) ==
    IF def_idx > Len(arg_defs) THEN <<>>
    ELSE IF def_idx \notin DOMAIN matched_args
    THEN CleanedArgs_FirstOnly(arg_defs, def_idx + 1, matched_args)
    ELSE <<matched_args[def_idx][1]>> \o CleanedArgs_FirstOnly(arg_defs, def_idx + 1, matched_args)

\* cleaned_args: the recorded values in definition order, from definition def_idx on
RECURSIVE CleanedArgs(_, _, _)
CleanedArgs(arg_defs, def_idx, matched_args) ==
    IF def_idx > Len(arg_defs) THEN <<>>
    ELSE IF def_idx \notin DOMAIN matched_args
    THEN CleanedArgs(arg_defs, def_idx + 1, matched_args)
    ELSE (IF Variadic(arg_defs[def_idx]) THEN matched_args[def_idx]
          ELSE <<matched_args[def_idx][1]>>)
            \o CleanedArgs(arg_defs, def_idx + 1, matched_args)

\* (f"{command} " + ",".join(str(a) for a in cleaned_args)).strip()
CmdString(cmd, cleaned_args) ==
    Strip(cmd \o <<" ">>
              \o Join(<<",">>, [i \in 1..Len(cleaned_args) |-> Str(cleaned_args[i])]))

NoMatches == [i \in {} |-> <<>>]

ValidateCommand(command_set, cmd, call_args) ==
    IF Base(cmd) \notin DOMAIN command_set
    THEN Raised("SCPIUnknownCommandError", "Base command not found.")
    ELSE
    LET cmd_def == command_set[Base(cmd)]
        form_defs == ArgDefsOf(cmd_def, IsQuery(cmd))
        arg_defs == form_defs.items
    IN  IF form_defs = PyNone
        THEN Raised("SCPIUnknownCommandError",
                    IF IsQuery(cmd) THEN "Query format not supported."
                    ELSE "Set format not supported.")
        ELSE IF IsQuery(cmd) /\ ~IsSet(cmd_def, "response")
        THEN Raised("SCPIUnknownCommandError",
                    "Command definition error: Query supported but no responce format set.")
        ELSE IF NoArgsButRequired(call_args, arg_defs)
        THEN Raised("SCPIArgumentError", "No arguments, but arguments required!")
        ELSE
        LET m == MatchArgs(call_args, arg_defs, 1, 1, NoMatches)
        IN  IF m.raised.exc # "None" THEN m.raised
            ELSE
            LET f == FillDefaults(arg_defs, 1, m.matched_args)
            IN  IF f.raised.exc # "None" THEN f.raised
                ELSE Returned(CmdString(cmd, CleanedArgs(arg_defs, 1, f.matched_args)))

-----------------------------------------------------------------------------
(* CommandSet.__init__: the common catalog overlaid by the device catalog *)

\* mutant: a same-named definition is merged field by field
Overlay_MergeFields(common_commands, device_commands) ==
    [name \in DOMAIN common_commands \cup DOMAIN device_commands |->
        IF name \notin DOMAIN device_commands THEN common_commands[name]
        ELSE IF name \notin DOMAIN common_commands THEN device_commands[name]
        ELSE [k \in DOMAIN common_commands[name] \cup DOMAIN device_commands[name] |->
                IF k \in DOMAIN device_commands[name] THEN device_commands[name][k]
                ELSE common_commands[name][k]]]

\* self._command_set = common["commands"]; self._command_set.update(device["commands"])
Overlay(common_commands, device_commands) ==
    [name \in DOMAIN common_commands \cup DOMAIN device_commands |->
        IF name \in DOMAIN device_commands THEN device_commands[name]
        ELSE common_commands[name]]

-----------------------------------------------------------------------------
(* The catalogs and the arguments the model draws from *)

VOLT == <<"V","O","L","T">>
MEAS == <<"M","E","A","S">>
RST  == <<"*","R","S","T">>
STAT == <<"S","T","A","T">>
FREQ == <<"F","R","E","Q">>
CURR == <<"C","U","R","R">>

\* argument definitions, after the catalog of src/test/test_scpi_commandvalidator.py
ChannelDef == [type |-> "int", required |-> FALSE, range |-> PyList(<<PyInt(1), PyInt(4)>>)]
ChannelDefault ==
    [type |-> "int", required |-> FALSE, default |-> PyInt(1),
     range |-> PyList(<<PyInt(1), PyInt(4)>>)]
LevelDef ==
    [type |-> "float", required |-> TRUE, default |-> PyNone,
     range |-> PyList(<<PyInt(0), PyInt(60)>>)]
StateDef == [type |-> "bool", required |-> TRUE, default |-> PyNone]
ModeDef == [type |-> "str", values |-> PyList(<<PyStr(VOLT), PyStr(CURR)>>)]
StepsDef == [type |-> "float", required |-> TRUE, default |-> PyNone, variadic |-> TRUE]
TagsDef == [type |-> "str", required |-> FALSE, variadic |-> TRUE]

ArgDefs == {ChannelDef, ChannelDefault, LevelDef, StateDef, ModeDef, StepsDef, TagsDef}

\* every sequence over S of length at most n
SeqsUpTo(S, n) == UNION {[1..k -> S] : k \in 0..n}

\* the definition lists a catalog may hold: a variadic definition only in the last place
DefLists ==
    {L \in SeqsUpTo(ArgDefs, MaxDefs) : \A i \in 1..Len(L) : Variadic(L[i]) => i = Len(L)}

\* the common catalog: commands every device has
CommonCommands ==
    [name \in {RST, STAT} |->
        IF name = RST THEN [set |-> PyList(<<>>)]
        ELSE [set |-> PyList(<<>>), query |-> PyList(<<>>)]]

\* a device catalog whose VOLT command takes the set arguments arg_defs
DeviceCommands(arg_defs) ==
    [name \in {VOLT, MEAS} |->
        IF name = VOLT
        THEN [set |-> PyList(arg_defs), query |-> PyList(<<ChannelDefault>>),
              response |-> PyList(<<[type |-> "float"]>>)]
        ELSE [set |-> PyNone, query |-> PyList(<<>>),
              response |-> PyList(<<[type |-> "float"]>>)]]

Catalogs == {Overlay(CommonCommands, DeviceCommands(L)) : L \in DefLists}

\* the command tokens a caller passes: each name in its set and its query form
Names == {VOLT, MEAS, RST, STAT, FREQ}
Commands == Names \cup {name \o <<"?">> : name \in Names}

\* the argument values a caller passes
Vals ==
    { PyInt(2), PyInt(0), PyInt(70), PyFloat(125), PyFloat(-5),
      PyStr(<<"o","n"," ">>), PyStr(<<"v","o","l","t">>), PyBool(TRUE) }

ArgTuples == SeqsUpTo(Vals, MaxArgs)

-----------------------------------------------------------------------------
(* The state machine: one engine, called again and again *)

NoResult == Returned(<<>>)

\* SCPICommandSet.command_file_common, and the name of the device's command file
command_file_common == "SCPI_Common"
DeviceFile == "DEV"

\* the data directory with the common file and a device file of the given commands
DataFiles(device_commands) ==
    [fname \in {command_file_common, DeviceFile} |->
        IF fname = command_file_common THEN [commands |-> CommonCommands]
        ELSE [commands |-> device_commands]]

\* load_data_file(fname): the document, or FileNotFoundError
LoadDataFile(data_files, fname) ==
    IF fname \in DOMAIN data_files
    THEN [exc |-> "None", fdat |-> data_files[fname]]
    ELSE [exc |-> "FileNotFoundError", fdat |-> PyNone]

\* no command set: before construction, or when construction raised
NoCatalog == [name \in {} |-> PyNone]

\* CommandSet.__init__(_command_set_name): the loader calls it makes and the command
\* set it leaves
NewCommandSet(data_files, command_set_name) ==
    LET common == LoadDataFile(data_files, command_file_common)
        device_command_set == LoadDataFile(data_files, command_set_name)
    IN  IF common.exc # "None"
        THEN [exc |-> common.exc, loads |-> <<command_file_common>>,
              command_set |-> NoCatalog]
        ELSE IF device_command_set.exc # "None"
        THEN [exc |-> device_command_set.exc,
              loads |-> <<command_file_common, command_set_name>>,
              command_set |-> NoCatalog]
        ELSE [exc |-> "None",
              loads |-> <<command_file_common, command_set_name>>,
              command_set |-> Overlay(common.fdat.commands,
                                      device_command_set.fdat.commands)]

\* the threads that call one engine, and the locals of a validate_command call:
\* where the call is, its arguments, the loop variables and what it returns or raises
Callers == {"a", "b"}
NoFrame ==
    [pc |-> "idle", command |-> <<>>, args |-> <<>>, this_arg_val |-> 0,
     this_arg_def |-> 0, matched_args |-> NoMatches, result |-> NoResult]
NoCalls == [c \in Callers |-> NoFrame]

\* no connection: the engine is used on its own
NoConnection == [status |-> "None"]

\* the engine, an instance of a subclass of SCPICommandSet that defines _help_command,
\* constructed on the device file
Constructed(data_files) ==
    /\ catalog = NewCommandSet(data_files, DeviceFile).command_set
    /\ loads = NewCommandSet(data_files, DeviceFile).loads
    /\ pc = "idle"
    /\ command = <<>>
    /\ args = <<>>
    /\ result = NoResult
    /\ warnings = <<>>
    /\ frames = NoCalls
    /\ cnx = NoConnection

Init ==
    \E arg_defs \in DefLists :
        /\ files = DataFiles(DeviceCommands(arg_defs))
        /\ Constructed(files)

\* mutant: the definitions are read with setdefault("required", True) in place of
\* get("required", True), which writes the key into the catalog's definitions
Validate_SetsRequired(cmd, call_args) ==
    /\ pc' = "done"
    /\ command' = cmd
    /\ args' = call_args
    /\ result' = ValidateCommand(catalog, cmd, call_args)
    /\ catalog' =
        [name \in DOMAIN catalog |->
            IF name = Base(cmd) /\ IsSet(catalog[name], "set")
            THEN [catalog[name] EXCEPT !.set =
                    PyList([i \in 1..Len(@.items) |->
                        [k \in DOMAIN @.items[i] \cup {"required"} |->
                            IF k \in DOMAIN @.items[i] THEN @.items[i][k] ELSE TRUE]])]
            ELSE catalog[name]]
    /\ UNCHANGED <<files, loads, warnings, frames, cnx>>

\* validate_command(cmd, *call_args) runs to its return or raise
Validate(cmd, call_args) ==
    /\ pc' = "done"
    /\ command' = cmd
    /\ args' = call_args
    /\ result' = ValidateCommand(catalog, cmd, call_args)
    /\ UNCHANGED <<catalog, files, loads, warnings, frames, cnx>>

\* a caller calls validate_command with some command token and arguments
Call ==
    /\ pc = "idle"
    /\ \E cmd \in Commands, call_args \in ArgTuples : Validate(cmd, call_args)

\* the caller has taken the result; the engine is ready for the next call
Return ==
    /\ pc \in {"done", "checked", "got", "helped", "normalized", "parsed", "wrote",
              "queried", "response", "answered"}
    /\ pc' = "idle"
    /\ command' = <<>>
    /\ args' = <<>>
    /\ result' = NoResult
    /\ warnings' = <<>>
    /\ UNCHANGED <<catalog, files, loads, frames, cnx>>

Next ==
    \/ Call
    \/ Return

Spec == Init /\ [][Next]_vars

-----------------------------------------------------------------------------
(* Vocabulary of the properties, read off the call and the catalog directly *)

CallDone == pc = "done"
CallReturned == CallDone /\ result.exc = "None"

\* the call asks for the query form; the name it looks up
QueryCall == command # <<>> /\ command[Len(command)] = "?"
CallName == IF QueryCall THEN SubSeq(command, 1, Len(command) - 1) ELSE command
CallForm == IF QueryCall THEN "query" ELSE "set"

\* the command is in the catalog; the requested form is declared; a query has its response
CmdKnown == CallName \in DOMAIN catalog
FormDefined ==
    /\ CmdKnown
    /\ CallForm \in DOMAIN catalog[CallName]
    /\ catalog[CallName][CallForm] # PyNone
FormUsable ==
    /\ FormDefined
    /\ QueryCall => /\ "response" \in DOMAIN catalog[CallName]
                    /\ catalog[CallName].response # PyNone

\* the argument definitions of the requested form (when FormDefined)
Defs == catalog[CallName][CallForm].items

DefIsRequired(d) == IF "required" \in DOMAIN d THEN d.required ELSE TRUE
DefIsVariadic(d) == IF "variadic" \in DOMAIN d THEN d.variadic ELSE FALSE
DefHasDefault(d) == "default" \in DOMAIN d /\ d.default # PyNone

\* the value passes validate_argument against the definition
Accepts(v, d) == ValidateArgument(v, d).ok

\* the error kinds of the specification, as the engine raises them
UnknownCommand == Raised("SCPIUnknownCommandError", "Base command not found.")
UnsupportedQuery == Raised("SCPIUnknownCommandError", "Query format not supported.")
UnsupportedSet == Raised("SCPIUnknownCommandError", "Set format not supported.")
MissingRequiredArgument ==
    Raised("SCPIArgumentError", "No arguments, but arguments required!")
TooManyArguments == Raised("SCPIArgumentError", "Too many arguments supplied?")
ArgumentTypeError == Raised("SCPIArgumentError", "Unable to validate against definition")
ArgumentValueError ==
    Raised("SCPIArgumentValueError", "Unable to validate against definition")

\* the string for a list of values: name, a space, the values rendered and comma-joined
Rendered(name, values) ==
    name \o <<" ">> \o Join(<<",">>, [i \in 1..Len(values) |-> Str(values[i])])

\* the supplied values line up with the definitions: value i is accepted by definition i
OneValuePerDef ==
    /\ Len(args) = Len(Defs)
    /\ \A i \in 1..Len(args) : Accepts(args[i], Defs[i])

-----------------------------------------------------------------------------
(* The scan of the specification (4.4 step 4), stated for the properties *)

\* where the scan of value v stops when it starts at definition c: the first
\* definition from c on that accepts v or is required; 0 when there is none
ScanStop(v, defs, c) ==
    LET stops == {j \in c..Len(defs) : Accepts(v, defs[j]) \/ DefIsRequired(defs[j])}
    IN  IF stops = {} THEN 0 ELSE CHOOSE j \in stops : \A i \in stops : j <= i

\* the definition cursor when value k is about to be scanned (Len(defs) + 1 when it
\* has passed the last definition); 0 when an earlier value has already failed
RECURSIVE CursorAt(_, _, _)
CursorAt(a, defs, k) ==
    IF k = 1 THEN 1
    ELSE LET c == CursorAt(a, defs, k - 1)
         IN  IF c = 0 \/ c > Len(defs) THEN 0
             ELSE LET j == ScanStop(a[k - 1], defs, c)
                  IN  IF j = 0 \/ ~Accepts(a[k - 1], defs[j]) THEN 0
                      ELSE IF DefIsVariadic(defs[j]) THEN j ELSE j + 1

\* value k of the call is scanned with the cursor on a definition
Scanned(k) == CursorAt(args, Defs, k) \in 1..Len(Defs)

\* the definition at which the scan of value k stops (when Scanned(k)); 0 when none
StopOf(k) == ScanStop(args[k], Defs, CursorAt(args, Defs, k))

\* value k is matched: its scan stops at a definition that accepts it
Matched(k) == Scanned(k) /\ StopOf(k) # 0 /\ Accepts(args[k], Defs[StopOf(k)])

\* the values matched to definition i, in the order supplied, from value k on
RECURSIVE ValuesAt(_, _)
ValuesAt(i, k) ==
    IF k > Len(args) THEN <<>>
    ELSE (IF StopOf(k) = i THEN <<args[k]>> ELSE <<>>) \o ValuesAt(i, k + 1)

\* what definition i contributes to the output when every value is matched: its
\* values, else its default when it is optional and has one, else nothing
Contribution(i) ==
    IF ValuesAt(i, 1) # <<>> THEN ValuesAt(i, 1)
    ELSE IF ~DefIsRequired(Defs[i]) /\ DefHasDefault(Defs[i]) THEN <<Defs[i].default>>
    ELSE <<>>

\* the contributions of definitions i.. in definition order
RECURSIVE OutputFrom(_)
OutputFrom(i) == IF i > Len(Defs) THEN <<>> ELSE Contribution(i) \o OutputFrom(i + 1)

\* every supplied value is matched, and every required definition has a value
AllMatched == \A k \in 1..Len(args) : Matched(k)
RequiredSatisfied ==
    \A i \in 1..Len(Defs) : DefIsRequired(Defs[i]) => ValuesAt(i, 1) # <<>>

\* a numeric definition with a declared range, and a number outside that range
NumericWithRange(d) ==
    /\ "type" \in DOMAIN d /\ d.type \in {"int", "float"}
    /\ "range" \in DOMAIN d /\ d.range # PyNone
IsNumber(v) == v.t \in {"int", "float"}
OutOfRange(v, d) ==
    LET low == d.range.items[1]
        high == d.range.items[2]
    IN  \/ IsNumber(low) /\ Tenths(v) < Tenths(low)
        \/ IsNumber(high) /\ Tenths(v) > Tenths(high)
\* the value has the Python type the definition asks for
OfDeclaredType(v, d) == IF d.type = "int" THEN v.t = "int" ELSE IsNumber(v)

-----------------------------------------------------------------------------
(* C1..C10: validate_command *)

\* C1 (as claimed): whenever validate_command returns a string, every required
\* argument definition of the selected form was matched by at least one supplied value.
C1_RequiredDefinitionsMatched ==
    (CallReturned /\ FormUsable) =>
        \A i \in 1..Len(Defs) :
            DefIsRequired(Defs[i]) =>
                i \in DOMAIN MatchArgs(args, Defs, 1, 1, NoMatches).matched_args

\* C2 (as claimed): with the set form defined and one valid value supplied for each
\* definition, validate_command returns exactly the base name, one space and the
\* values rendered as strings, comma-joined in definition order.
C2_ExactString ==
    (CallDone /\ ~QueryCall /\ FormDefined /\ OneValuePerDef) =>
        result = Returned(Rendered(CallName, args))

\* C2 (amended): ... validate_command returns that string with the whitespace at its
\* ends stripped: the base name alone when there are no definitions, and without the
\* trailing whitespace of a last value.
C2_StrippedString ==
    (CallDone /\ ~QueryCall /\ FormDefined /\ OneValuePerDef) =>
        result = Returned(Strip(Rendered(CallName, args)))

\* C2 witness: a set call with two values, one per definition, has returned
C2_Witness ==
    /\ CallDone /\ ~QueryCall /\ FormDefined /\ OneValuePerDef
    /\ Len(args) = 2
    /\ result.exc = "None"

\* C3: for a command in the catalog whose query definition is absent or null, the
\* query form always fails with UnsupportedForm, whatever the arguments, and never
\* returns a string.
C3_QueryUnsupported ==
    (CallDone /\ QueryCall /\ CmdKnown /\ ~FormDefined) => result = UnsupportedQuery

\* C3 witness: a query of a set-only command, with arguments, has failed
C3_Witness ==
    /\ CallDone /\ QueryCall /\ CmdKnown /\ ~FormDefined
    /\ Len(args) > 0
    /\ result.exc # "None"

\* C4 (as claimed): when the definition a value is validated against is numeric with
\* a declared range and the value (a number of the declared type) is below min or
\* above max, validate_command fails with ArgumentValueError and returns no string
\* carrying that value.
C4_OutOfRangeFails ==
    (CallDone /\ FormUsable) =>
        \A k \in 1..Len(args) :
            (/\ Scanned(k)
             /\ NumericWithRange(Defs[CursorAt(args, Defs, k)])
             /\ OfDeclaredType(args[k], Defs[CursorAt(args, Defs, k)])
             /\ OutOfRange(args[k], Defs[CursorAt(args, Defs, k)]))
            => result.exc = "SCPIArgumentValueError"

\* C4 (amended): when that definition is also required, validate_command fails with
\* ArgumentValueError.  (Against an optional definition the value is retried against
\* the later definitions, and the call may return a string carrying it.)
C4_RequiredOutOfRangeFails ==
    (CallDone /\ FormUsable) =>
        \A k \in 1..Len(args) :
            (/\ Scanned(k)
             /\ NumericWithRange(Defs[CursorAt(args, Defs, k)])
             /\ DefIsRequired(Defs[CursorAt(args, Defs, k)])
             /\ OfDeclaredType(args[k], Defs[CursorAt(args, Defs, k)])
             /\ OutOfRange(args[k], Defs[CursorAt(args, Defs, k)]))
            => result = ArgumentValueError

\* C4 witness: the second value of a call was above the range of a required
\* definition, and the call failed
C4_Witness ==
    /\ CallDone /\ FormUsable /\ Len(args) = 2
    /\ Scanned(2)
    /\ NumericWithRange(Defs[CursorAt(args, Defs, 2)])
    /\ DefIsRequired(Defs[CursorAt(args, Defs, 2)])
    /\ OfDeclaredType(args[2], Defs[CursorAt(args, Defs, 2)])
    /\ OutOfRange(args[2], Defs[CursorAt(args, Defs, 2)])
    /\ Tenths(args[2]) > 0
    /\ result.exc # "None"

\* the failures the taxonomy names, recognised from the call itself
FailsUnknown == ~CmdKnown
FailsUnsupported == CmdKnown /\ ~FormDefined
FailsMissing ==
    FormUsable /\ args = <<>> /\ Len(Defs) > 0 /\ DefIsRequired(Defs[1])
FailsTooMany ==
    FormUsable /\ \E k \in 1..Len(args) : CursorAt(args, Defs, k) > Len(Defs)
FailsType ==
    FormUsable /\ \E k \in 1..Len(args) :
        /\ Scanned(k) /\ StopOf(k) # 0
        /\ ValidateArgument(args[k], Defs[StopOf(k)]).kind = "type"

\* C5 (as claimed): an unknown command, an unsupported form, a missing required
\* argument, too many arguments and a type mismatch are surfaced as distinct error
\* kinds: a failure of one of them has another exception class than the failure of
\* any other (here compared with the unknown command FREQ and with one argument too
\* many for *RST, on the same engine).
C5_DistinctErrorKinds ==
    CallDone =>
        /\ FailsUnsupported => result.exc # ValidateCommand(catalog, FREQ, <<>>).exc
        /\ (FailsMissing \/ FailsType) =>
                result.exc # ValidateCommand(catalog, RST, <<PyInt(2)>>).exc

\* the definition list ends with a variadic definition, the first Len(Defs) - 1 values
\* are accepted one by one by the fixed prefix, and every further value is accepted by
\* the variadic definition
VariadicCall ==
    /\ Len(Defs) >= 1
    /\ DefIsVariadic(Defs[Len(Defs)])
    /\ Len(args) >= Len(Defs) - 1
    /\ \A k \in 1..Len(args) :
            IF k < Len(Defs) THEN Accepts(args[k], Defs[k])
            ELSE Accepts(args[k], Defs[Len(Defs)])

\* C6 (as claimed): for a definition list whose last definition is variadic,
\* validate_command succeeds when the fixed prefix is satisfied and 0, 1 or more
\* trailing values of the variadic definition are supplied.
C6_VariadicSucceeds ==
    (CallDone /\ FormUsable /\ VariadicCall) => result.exc = "None"

\* C6 (amended): ... validate_command succeeds, except when no value at all is
\* supplied and the variadic definition, being the only one, is required: that call
\* fails with MissingRequiredArgument.
C6_VariadicSucceedsUnlessEmpty ==
    (CallDone /\ FormUsable /\ VariadicCall) =>
        IF args = <<>> /\ DefIsRequired(Defs[1])
        THEN result = MissingRequiredArgument
        ELSE result = Returned(Strip(Rendered(command, OutputFrom(1))))

\* C6 witness: two trailing values were absorbed by a variadic definition
C6_Witness ==
    /\ CallDone /\ FormUsable /\ VariadicCall
    /\ Len(args) = Len(Defs) + 1
    /\ result.exc = "None"

\* C7: with no arguments, a form whose first definition is required fails at once with
\* MissingRequiredArgument, before any matching or default fill; a form with an
\* optional first definition, or with no definition, does not fail with it.
C7_EmptinessShortcut ==
    (CallDone /\ FormUsable /\ args = <<>>) =>
        IF Len(Defs) > 0 /\ DefIsRequired(Defs[1])
        THEN result = MissingRequiredArgument
        ELSE result.info # MissingRequiredArgument.info

\* C7 witness: a call without arguments failed although the second definition has a
\* default to fill in
C7_Witness ==
    /\ CallDone /\ FormUsable /\ args = <<>>
    /\ Len(Defs) = 2 /\ DefIsRequired(Defs[1]) /\ DefHasDefault(Defs[2])
    /\ result = MissingRequiredArgument

\* C8: validate_command fails with TooManyArguments whenever a value remains to be
\* matched and the definition cursor has passed the last definition; in particular
\* any argument supplied to a form with an empty definition list fails.
C8_TooManyArguments ==
    (CallDone /\ FormUsable) =>
        /\ (\E k \in 1..Len(args) : CursorAt(args, Defs, k) > Len(Defs))
                => result = TooManyArguments
        /\ (Len(Defs) = 0 /\ Len(args) > 0) => result = TooManyArguments

\* C8 witness: the first value skipped an optional definition and was matched by the
\* last one, so the second value found the cursor past the end
C8_Witness ==
    /\ CallDone /\ FormUsable /\ Len(args) = 2 /\ Len(Defs) = 2
    /\ Matched(1) /\ StopOf(1) = 2
    /\ CursorAt(args, Defs, 2) = 3
    /\ result = TooManyArguments

\* C9: a value that fails validation against an optional definition at the cursor is
\* retried against the following definitions; when it matches a later one (and every
\* value is matched, every required definition has a value) the call succeeds and each
\* skipped optional definition without default is omitted from the output.
C9_OptionalSkipped ==
    (/\ CallDone /\ FormUsable /\ AllMatched /\ RequiredSatisfied
     /\ \E k \in 1..Len(args) : StopOf(k) > CursorAt(args, Defs, k))
    => result = Returned(Strip(Rendered(command, OutputFrom(1))))

\* C9, the example: set-args [optional int range 1..4, required float range 0..60]
\* with the single value 12.5 yield 'VOLT 12.5'
C9_Example ==
    (/\ CallDone /\ command = VOLT /\ args = <<PyFloat(125)>>
     /\ catalog[VOLT].set = PyList(<<ChannelDef, LevelDef>>))
    => result = Returned(<<"V","O","L","T"," ","1","2",".","5">>)

\* C9: a value rejected by an optional definition is retried against the following
\* definitions and, matched later, the call succeeds with the skipped optional
\* definitions without default omitted; so does the example call.
C9_SkipOnOptionalMismatch == C9_OptionalSkipped /\ C9_Example

\* C9 witness: the example call has returned
C9_Witness ==
    /\ CallDone /\ command = VOLT /\ args = <<PyFloat(125)>>
    /\ catalog[VOLT].set = PyList(<<ChannelDef, LevelDef>>)
    /\ StopOf(1) = 2 /\ CursorAt(args, Defs, 1) = 1
    /\ result.exc = "None"

\* C10: when the scan of a value stops at a required definition that rejects it,
\* validate_command fails at once, with ArgumentTypeError for a type failure and
\* ArgumentValueError for a value failure; the value is not tried against a later
\* definition.
C10_RequiredFailsAtOnce ==
    (CallDone /\ FormUsable) =>
        \A k \in 1..Len(args) :
            (Scanned(k) /\ StopOf(k) # 0 /\ ~Accepts(args[k], Defs[StopOf(k)])) =>
                result = IF ValidateArgument(args[k], Defs[StopOf(k)]).kind = "value"
                         THEN ArgumentValueError
                         ELSE ArgumentTypeError

\* C10 witness: after a first value was matched, a wrong-typed second value met a
\* required definition and the call failed with ArgumentTypeError
C10_Witness ==
    /\ CallDone /\ FormUsable /\ Len(args) = 2
    /\ Matched(1) /\ Scanned(2) /\ StopOf(2) # 0
    /\ ValidateArgument(args[2], Defs[StopOf(2)]).kind = "type"
    /\ result = ArgumentTypeError

-----------------------------------------------------------------------------
(* The other operations of the engine: validate_argument called on its own *)

\* definitions that declare allowed values
LevelChoice ==
    [type |-> "float", required |-> TRUE,
     values |-> PyList(<<PyFloat(125), PyInt(2)>>)]
ChannelChoice ==
    [type |-> "int", required |-> TRUE, values |-> PyList(<<PyInt(2), PyInt(70)>>),
     range |-> PyList(<<PyInt(1), PyInt(4)>>)]
StateChoice ==
    [type |-> "bool", required |-> TRUE,
     values |-> PyList(<<PyStr(<<"O","N">>), PyStr(<<"O","F","F">>)>>)]
NoChoice == [type |-> "str", required |-> TRUE, values |-> PyNone]

\* malformed definitions: no type, and a type the engine does not know
NoTypeDef == [required |-> TRUE]
NullTypeDef == [type |-> PyNone, required |-> TRUE]
OddTypeDef == [type |-> "list", required |-> FALSE]

\* ranges that do not unpack into low and high: three items, one item
LongRangeDef ==
    [type |-> "int", required |-> TRUE, range |-> PyList(<<PyInt(1), PyInt(4), PyInt(7)>>)]
ShortRangeDef == [type |-> "float", required |-> TRUE, range |-> PyList(<<PyInt(1)>>)]

\* the definitions and the arguments validate_argument is called with
Definitions ==
    ArgDefs \cup { LevelChoice, ChannelChoice, StateChoice, NoChoice, NoTypeDef, NullTypeDef,
                    OddTypeDef, LongRangeDef, ShortRangeDef }
Arguments ==
    Vals \cup { PyNone, PyInt(1), PyFloat(20), PyBool(FALSE),
                PyStr(VOLT), PyStr(<<"C","u","r","r">>), PyStr(<<"o","f","f">>) }

\* validate_argument(argument, argument_definition) runs to its return or raise
CheckArgument ==
    /\ pc = "idle"
    /\ \E argument \in Arguments, argument_definition \in Definitions :
        /\ pc' = "checked"
        /\ command' = <<>>
        /\ args' = <<argument, argument_definition>>
        /\ result' = ValidateArgument(argument, argument_definition)
        /\ UNCHANGED <<catalog, files, loads, warnings, frames, cnx>>

-----------------------------------------------------------------------------
(* C11: the allowed values *)

\* a validate_argument call has returned or raised; its two arguments
ArgumentChecked == pc = "checked"
CheckedValue == args[1]
CheckedDef == args[2]

\* the value is well-typed for a definition that declares allowed values
WellTypedChoice ==
    /\ ArgumentChecked
    /\ "values" \in DOMAIN CheckedDef /\ CheckedDef.values # PyNone
    /\ "type" \in DOMAIN CheckedDef /\ CheckedDef.type \in {"bool", "int", "float", "str"}
    /\ CheckedValue # PyNone
    /\ TypeOk(CheckedValue, CheckedDef.type)

\* the value is a member of the allowed values: the same number, or the same string
\* whatever the letter case
SameValue(v, a) ==
    IF v.t = "str" /\ a.t = "str" THEN Upper(v.s) = Upper(a.s)
    ELSE /\ v.t \in {"bool", "int", "float"} /\ a.t \in {"bool", "int", "float"}
         /\ Tenths(v) = Tenths(a)
Member(v, d) == \E i \in 1..Len(d.values.items) : SameValue(v, d.values.items[i])

\* the value is a number outside the range the definition declares as well
BeyondRange(v, d) ==
    /\ "range" \in DOMAIN d /\ d.range # PyNone
    /\ IsNumber(v) /\ OutOfRange(v, d)

\* C11 (as claimed): validate_argument on a well-typed value whose definition declares
\* allowed values returns Ok iff the value is a member of the set, strings compared
\* case-insensitively, and otherwise returns a Value error, never a Type error.
C11_OkIffMember ==
    WellTypedChoice =>
        result = IF Member(CheckedValue, CheckedDef) THEN ArgOk ELSE ArgErr("value")

\* C11 (amended): ... returns Ok iff the value is a member of the set and, when the
\* definition declares a range as well, a number within it; otherwise it returns a
\* Value error, never a Type error.
C11_OkIffMemberInRange ==
    WellTypedChoice =>
        result = IF /\ Member(CheckedValue, CheckedDef)
                    /\ ~BeyondRange(CheckedValue, CheckedDef)
                 THEN ArgOk ELSE ArgErr("value")

\* C11 witness: a string that differs from the allowed value in letter case only
\* was accepted
C11_Witness ==
    /\ WellTypedChoice
    /\ CheckedValue.t = "str"
    /\ \A i \in 1..Len(CheckedDef.values.items) : CheckedDef.values.items[i] # CheckedValue
    /\ Member(CheckedValue, CheckedDef)
    /\ result = ArgOk

-----------------------------------------------------------------------------
(* The other operations of the engine: get *)

\* SCPICommandSet.get(command): base is bound only when the command ends with "?";
\* CommandSet.get gives None for a name that is not in the command set
GetCommand(command_set, cmd) ==
    IF EndsWith(cmd, "?")
    THEN LET base == SubSeq(cmd, 1, Len(cmd) - 1)
         IN  IF base \in DOMAIN command_set
             THEN [exc |-> "None", info |-> "", value |-> command_set[base]]
             ELSE [exc |-> "None", info |-> "", value |-> PyNone]
    ELSE Raised("UnboundLocalError", "")

\* the warning get logs when it is given a query command
GetWarnings(cmd) ==
    IF EndsWith(cmd, "?") THEN <<"SCPICommandSet.get called with query command">>
    ELSE <<>>

\* get(cmd) runs to its return or raise
Get ==
    /\ pc = "idle"
    /\ \E cmd \in Commands :
        /\ pc' = "got"
        /\ command' = cmd
        /\ args' = <<>>
        /\ result' = GetCommand(catalog, cmd)
        /\ warnings' = GetWarnings(cmd)
        /\ UNCHANGED <<catalog, files, loads, frames, cnx>>

-----------------------------------------------------------------------------
(* The other operations of the engine: help *)

\* str.lower() of one character
LowerChar(c) ==
    IF \E i \in 1..26 : Capital[i] = c
    THEN Lower[CHOOSE i \in 1..26 : Capital[i] = c]
    ELSE c

\* the characters in the order of their codes: the control characters 7 to 13 and 28
\* to 31, then the printable ones from the space to the tilde (without the backquote,
\* which a string of this notation cannot hold)
CharOrder ==
    <<"", "", "\t", "\n", "", "\f", "\r", "", "", "", "",
      " ", "!", "\"", "#", "$", "%", "&", "'", "(", ")", "*", "+", ",", "-", ".", "/">>
    \o Digits \o <<":", ";", "<", "=", ">", "?", "@">> \o Capital
    \o <<"[", "\\", "]", "^", "_">> \o Lower \o <<"{", "|", "}", "~">>

\* where ord(c) stands among the codes of these characters
Ord(c) == CHOOSE i \in 1..Len(CharOrder) : CharOrder[i] = c

\* ord(c.lower())
Rank(c) == Ord(LowerChar(c))

\* a.lower() < b.lower()
RECURSIVE LessLower(_, _)
LessLower(a, b) ==
    IF b = <<>> THEN FALSE
    ELSE IF a = <<>> THEN TRUE
    ELSE IF Rank(Head(a)) # Rank(Head(b)) THEN Rank(Head(a)) < Rank(Head(b))
    ELSE LessLower(Tail(a), Tail(b))

\* mutant: matches.sort() without the key: capitals before small letters
RECURSIVE SortedByLower_ByCase(_)
SortedByLower_ByCase(names) ==
    IF names = {} THEN <<>>
    ELSE LET less(x, y) ==
                \E i \in 1..Len(y) :
                    /\ \A j \in 1..(i - 1) : j <= Len(x) /\ x[j] = y[j]
                    /\ (i > Len(x) \/ Ord(x[i]) < Ord(y[i]))
             first == CHOOSE n \in names : \A m \in names \ {n} : less(n, m)
         IN  <<first>> \o SortedByLower_ByCase(names \ {first})

\* matches.sort(key=str.lower), for names that differ when lower-cased
RECURSIVE SortedByLower(_)
SortedByLower(names) ==
    IF names = {} THEN <<>>
    ELSE LET first == CHOOSE n \in names : \A m \in names \ {n} : LessLower(n, m)
         IN  <<first>> \o SortedByLower(names \ {first})

\* re.compile(partial, re.IGNORECASE) and pattern.search(cmd), Python's re for patterns
\* of literals, the dot, sets, the categories \d \s \w, the anchors ^ $ \A \Z \b \B,
\* groups, alternatives and the greedy and lazy repeats; "beyond" is the outcome for
\* what is left out: (?...) other than (?:...), possessive repeats, the numeric, \x,
\* \u, \U and \N escapes and repeat counts of three digits and more

\* the pattern's character at place i, "" past its end
CharAt(p, i) == IF i <= Len(p) THEN p[i] ELSE ""

\* the parsed items
Lit(c) == [k |-> "lit", c |-> c]
Category(c) == [k |-> "cls", c |-> c]
Anchor(c) == [k |-> "at", c |-> c]

\* the outcome of a parsing step: the item and the place after it, or why there is none
Parsed(node, pos) == [st |-> "ok", node |-> node, pos |-> pos]
NotParsed(st) == [st |-> st, node |-> <<>>, pos |-> 0]

\* \a \b \f \n \r \t \v and the backslash itself stand for one character
EscapedChar(c) ==
    CASE c = "a" -> ""
      [] c = "b" -> ""
      [] c = "f" -> "\f"
      [] c = "n" -> "\n"
      [] c = "r" -> "\r"
      [] c = "t" -> "\t"
      [] c = "v" -> ""
      [] OTHER -> c

IsLetter(c) == \E i \in 1..26 : Capital[i] = c \/ Lower[i] = c

\* _escape(source, escape): c is the character after the backslash ("" at the end of
\* the pattern), next the place after it.  A category or an anchor, an escaped
\* character, a re.error for the other letters and at the end of the pattern, a
\* literal otherwise
Escape(c, next) ==
    IF c = "" THEN NotParsed("error")
    ELSE IF c \in {"d", "D", "s", "S", "w", "W"} THEN Parsed(Category(c), next)
    ELSE IF c \in {"A", "Z", "b", "B"} THEN Parsed(Anchor(c), next)
    ELSE IF c \in {"a", "f", "n", "r", "t", "v", "\\"} THEN Parsed(Lit(EscapedChar(c)), next)
    ELSE IF c \in {"x", "u", "U", "N"} \/ IsDigit(c) THEN NotParsed("beyond")
    ELSE IF IsLetter(c) THEN NotParsed("error")
    ELSE Parsed(Lit(c), next)

\* _class_escape(source, escape): the same inside a set, where \b is the backspace and
\* the anchors are a re.error
ClassEscape(c, next) ==
    IF c = "" THEN NotParsed("error")
    ELSE IF c \in {"a", "b", "f", "n", "r", "t", "v", "\\"} THEN Parsed(Lit(EscapedChar(c)), next)
    ELSE IF c \in {"d", "D", "s", "S", "w", "W"} THEN Parsed(Category(c), next)
    ELSE IF c \in {"x", "u", "U", "N"} \/ IsDigit(c) THEN NotParsed("beyond")
    ELSE IF IsLetter(c) THEN NotParsed("error")
    ELSE Parsed(Lit(c), next)

\* one member of a set: an escape or the character itself
SetMember(p, i) ==
    IF CharAt(p, i) = "\\" THEN ClassEscape(CharAt(p, i + 1), i + 2)
    ELSE Parsed(Lit(CharAt(p, i)), i + 1)

\* the set from place i on, parts being its members so far: a "]" closes it unless it
\* comes first.  SetAfter goes on after the member m1: a "-" between two characters
\* makes a range, and SetRange takes its upper end m2, which must not lie below m1
RECURSIVE ParseSet(_, _, _, _), SetAfter(_, _, _, _), SetRange(_, _, _, _, _)
ParseSet(p, i, neg, parts) ==
    IF CharAt(p, i) = "" THEN NotParsed("error")
    ELSE IF CharAt(p, i) = "]" /\ parts # <<>>
    THEN Parsed([k |-> "set", neg |-> neg, parts |-> parts], i + 1)
    ELSE SetAfter(p, neg, parts, SetMember(p, i))
SetAfter(p, neg, parts, m1) ==
    IF m1.st # "ok" THEN m1
    ELSE IF CharAt(p, m1.pos) # "-" THEN ParseSet(p, m1.pos, neg, Append(parts, m1.node))
    ELSE IF CharAt(p, m1.pos + 1) = "" THEN NotParsed("error")
    ELSE IF CharAt(p, m1.pos + 1) = "]"
    THEN Parsed([k |-> "set", neg |-> neg, parts |-> parts \o <<m1.node, Lit("-")>>],
                m1.pos + 2)
    ELSE SetRange(p, neg, parts, m1, SetMember(p, m1.pos + 1))
SetRange(p, neg, parts, m1, m2) ==
    IF m2.st # "ok" THEN m2
    ELSE IF m1.node.k # "lit" \/ m2.node.k # "lit" THEN NotParsed("error")
    ELSE IF Ord(m2.node.c) < Ord(m1.node.c) THEN NotParsed("error")
    ELSE ParseSet(p, m2.pos, neg,
                  Append(parts, [k |-> "range", lo |-> m1.node.c, hi |-> m2.node.c]))

\* the place after the digits that start at place i
RECURSIVE DigitsEnd(_, _)
DigitsEnd(p, i) == IF IsDigit(CharAt(p, i)) THEN DigitsEnd(p, i + 1) ELSE i

\* a repeat's outcome: its counts (max -1: no limit) and the place after it
Repeat(min, max, pos) == [st |-> "ok", min |-> min, max |-> max, pos |-> pos]
NoRepeat(st) == [st |-> st, min |-> 0, max |-> 0, pos |-> 0]

\* the repeat of the counts lo and hi (digits, <<>> when left out) whose brace should
\* close at place e2: a maximum below the minimum is a re.error
Counted(p, i, lo, hi, e2) ==
    IF CharAt(p, i + 1) = "}" \/ CharAt(p, e2) # "}" THEN NoRepeat("lit")
    ELSE IF Len(lo) > 2 \/ Len(hi) > 2 THEN NoRepeat("beyond")
    ELSE IF hi # <<>> /\ NatOf(hi) < NatOf(lo) THEN NoRepeat("error")
    ELSE Repeat(NatOf(lo), IF hi = <<>> THEN 0 - 1 ELSE NatOf(hi), e2 + 1)

\* the brace at place i whose first digits end before place e1
BracesTo(p, i, e1) ==
    IF CharAt(p, e1) = ","
    THEN Counted(p, i, SubSeq(p, i + 1, e1 - 1),
                 SubSeq(p, e1 + 1, DigitsEnd(p, e1 + 1) - 1), DigitsEnd(p, e1 + 1))
    ELSE Counted(p, i, SubSeq(p, i + 1, e1 - 1), SubSeq(p, i + 1, e1 - 1), e1)

\* p[i] is "{": {m}, {m,n}, {m,}, {,n} and {,} are repeats; anything else leaves the
\* brace a literal ("lit")
Braces(p, i) == BracesTo(p, i, DigitsEnd(p, i + 1))

\* the repeat that starts at place i
Quantifier(p, i) ==
    CASE CharAt(p, i) = "?" -> Repeat(0, 1, i + 1)
      [] CharAt(p, i) = "*" -> Repeat(0, 0 - 1, i + 1)
      [] CharAt(p, i) = "+" -> Repeat(1, 0 - 1, i + 1)
      [] OTHER -> Braces(p, i)

\* _parse and _parse_sub: the items of one alternative from place i on, up to a "|",
\* a ")" or the end, and the alternatives of a subpattern.  ItemAfter goes on after
\* the item r, GroupAfter after the subpattern r of a group, which needs its ")",
\* BranchAfter after the alternative r.  RepeatAfter takes the repeat q read at place
\* i: it needs an item before it that is neither an anchor ("nothing to repeat") nor
\* a repeat ("multiple repeat")
RECURSIVE ParseSeq(_, _, _), ParseSub(_, _, _), ItemAfter(_, _, _), GroupAfter(_, _, _),
          RepeatAfter(_, _, _, _), BranchAfter(_, _, _)
ItemAfter(p, items, r) ==
    IF r.st # "ok" THEN r ELSE ParseSeq(p, r.pos, Append(items, r.node))
GroupAfter(p, items, r) ==
    IF r.st # "ok" THEN r
    ELSE IF CharAt(p, r.pos) # ")" THEN NotParsed("error")
    ELSE ParseSeq(p, r.pos + 1, Append(items, [k |-> "grp", item |-> r.node]))
RepeatAfter(p, i, items, q) ==
    IF q.st = "lit" THEN ParseSeq(p, i + 1, Append(items, Lit("{")))
    ELSE IF q.st # "ok" THEN NotParsed(q.st)
    ELSE IF items = <<>> THEN NotParsed("error")
    ELSE IF items[Len(items)].k \in {"at", "rep"} THEN NotParsed("error")
    ELSE IF CharAt(p, q.pos) = "+" THEN NotParsed("beyond")
    ELSE ParseSeq(p, IF CharAt(p, q.pos) = "?" THEN q.pos + 1 ELSE q.pos,
                  Append(SubSeq(items, 1, Len(items) - 1),
                         [k |-> "rep", min |-> q.min, max |-> q.max,
                          item |-> items[Len(items)]]))
ParseSeq(p, i, items) ==
    LET c == CharAt(p, i)
    IN  CASE c \in {"", "|", ")"} -> Parsed([k |-> "cat", items |-> items], i)
          [] c = "\\" -> ItemAfter(p, items, Escape(CharAt(p, i + 1), i + 2))
          [] c = "[" /\ CharAt(p, i + 1) = "^" ->
                ItemAfter(p, items, ParseSet(p, i + 2, TRUE, <<>>))
          [] c = "[" /\ CharAt(p, i + 1) # "^" ->
                ItemAfter(p, items, ParseSet(p, i + 1, FALSE, <<>>))
          [] c \in {"*", "+", "?", "{"} -> RepeatAfter(p, i, items, Quantifier(p, i))
          [] c = "." -> ParseSeq(p, i + 1, Append(items, [k |-> "any"]))
          [] c = "(" /\ CharAt(p, i + 1) # "?" ->
                GroupAfter(p, items, ParseSub(p, i + 1, <<>>))
          [] c = "(" /\ CharAt(p, i + 1) = "?" ->
                IF CharAt(p, i + 2) = "" THEN NotParsed("error")
                ELSE IF CharAt(p, i + 2) # ":" THEN NotParsed("beyond")
                ELSE GroupAfter(p, items, ParseSub(p, i + 3, <<>>))
          [] c \in {"^", "$"} -> ParseSeq(p, i + 1, Append(items, Anchor(c)))
          [] OTHER -> ParseSeq(p, i + 1, Append(items, Lit(c)))
BranchAfter(p, branches, r) ==
    IF r.st # "ok" THEN r
    ELSE IF CharAt(p, r.pos) = "|" THEN ParseSub(p, r.pos + 1, Append(branches, r.node))
    ELSE Parsed([k |-> "alt", items |-> Append(branches, r.node)], r.pos)
ParseSub(p, i, branches) == BranchAfter(p, branches, ParseSeq(p, i, <<>>))

\* the whole pattern parsed; a ")" left over is the re.error "unbalanced parenthesis"
Finished(partial, r) ==
    IF r.st = "ok" /\ r.pos <= Len(partial) THEN NotParsed("error") ELSE r
Compiled(partial) == Finished(partial, ParseSub(partial, 1, <<>>))

\* re.compile(partial, re.IGNORECASE) returns a pattern: no re.error
Compiles(partial) == Compiled(partial).st = "ok"

\* a character of the categories \w and, with d s w and their complements, of any
IsWord(ch) == IsLetter(ch) \/ IsDigit(ch) \/ ch = "_"
InCategory(c, ch) ==
    CASE c = "d" -> IsDigit(ch)
      [] c = "D" -> ~IsDigit(ch)
      [] c = "s" -> IsSpace(ch)
      [] c = "S" -> ~IsSpace(ch)
      [] c = "w" -> IsWord(ch)
      [] c = "W" -> ~IsWord(ch)

\* ch is in a member of a set when the letter case is ignored
InPart(part, ch) ==
    CASE part.k = "lit" -> LowerChar(part.c) = LowerChar(ch)
      [] part.k = "range" ->
            \/ Ord(part.lo) <= Ord(LowerChar(ch)) /\ Ord(LowerChar(ch)) <= Ord(part.hi)
            \/ Ord(part.lo) <= Ord(UpperChar(ch)) /\ Ord(UpperChar(ch)) <= Ord(part.hi)
      [] OTHER -> InCategory(part.c, ch)

\* an anchor holds at place i of the text: ^ and \A at its start, \Z at its end, $ at
\* its end or before a line feed that ends it, \b where a word character meets none
\* (never in an empty text, and neither \B)
AnchorHolds(c, t, i) ==
    LET edge == (i > 1 /\ IsWord(t[i - 1])) # (i <= Len(t) /\ IsWord(t[i]))
    IN  CASE c \in {"^", "A"} -> i = 1
          [] c = "$" -> i = Len(t) + 1 \/ (i = Len(t) /\ t[i] = "\n")
          [] c = "Z" -> i = Len(t) + 1
          [] c = "b" -> t # <<>> /\ edge
          [] OTHER -> t # <<>> /\ ~edge

\* the places where a match of the item that starts at place i of the text can end
\* (the place after its last character); EndsFrom from any of several places, Times
\* after exactly n rounds of a repeat, UpTo after at most n more (n = -1: any
\* number), Further when one round more reaches the places more, CatEnds through
\* the items of an alternative in turn
RECURSIVE Ends(_, _, _), EndsFrom(_, _, _), Times(_, _, _, _), UpTo(_, _, _, _),
          Further(_, _, _, _, _), CatEnds(_, _, _)
EndsFrom(node, t, froms) == UNION {Ends(node, t, s) : s \in froms}
Times(node, t, froms, n) == IF n = 0 THEN froms ELSE Times(node, t, EndsFrom(node, t, froms), n - 1)
UpTo(node, t, froms, n) ==
    IF n = 0 THEN froms ELSE Further(node, t, froms, n, EndsFrom(node, t, froms) \ froms)
Further(node, t, froms, n, more) ==
    IF more = {} THEN froms
    ELSE UpTo(node, t, froms \cup more, IF n < 0 THEN n ELSE n - 1)
CatEnds(items, t, froms) ==
    IF items = <<>> THEN froms ELSE CatEnds(Tail(items), t, EndsFrom(Head(items), t, froms))
Ends(node, t, i) ==
    LET one(matches) == IF i <= Len(t) /\ matches THEN {i + 1} ELSE {}
    IN  CASE node.k = "lit" -> one(LowerChar(t[i]) = LowerChar(node.c))
          [] node.k = "any" -> one(t[i] # "\n")
          [] node.k = "cls" -> one(InCategory(node.c, t[i]))
          [] node.k = "set" ->
                one((\E j \in 1..Len(node.parts) : InPart(node.parts[j], t[i])) # node.neg)
          [] node.k = "at" -> IF AnchorHolds(node.c, t, i) THEN {i} ELSE {}
          [] node.k = "grp" -> Ends(node.item, t, i)
          [] node.k = "cat" -> CatEnds(node.items, t, {i})
          [] node.k = "alt" -> UNION {Ends(node.items[j], t, i) : j \in 1..Len(node.items)}
          [] OTHER -> UpTo(node.item, t, Times(node.item, t, {i}, node.min),
                           IF node.max < 0 THEN node.max ELSE node.max - node.min)

\* pattern.search(cmd): a match starts somewhere in cmd
Search(partial, cmd) ==
    \E i \in 1..(Len(cmd) + 1) : Ends(Compiled(partial).node, cmd, i) # {}

\* the summary line of one command, cut to the display width
SummaryLine(command_set, cmd) ==
    LET help_text == IF Has(command_set[cmd], "help") THEN Str(command_set[cmd].help)
                     ELSE <<>>
        line == <<">", " ">> \o cmd \o <<":", " ">> \o help_text
    IN  IF Len(line) > 80 THEN SubSeq(line, 1, 77) \o <<".", ".", ".">> ELSE line

\* what help did: the message it printed and the number in it, the summary lines it
\* printed, and the command handed to _help_command (<<>> when none)
Helped(report, found, lines, detail) ==
    [exc |-> "None", report |-> report, found |-> found, lines |-> lines,
     detail |-> detail]

\* CommandSet.help(partial): re.compile raises TypeError for a partial that is no
\* string, which help does not catch; a pattern beyond this model's is "Unheld"
HelpRun(command_set, partial) ==
    IF partial # PyNone /\ ~IsStr(partial)
    THEN [Helped("", 0, <<>>, <<>>) EXCEPT !.exc = "TypeError"]
    ELSE IF partial # PyNone /\ Compiled(partial.s).st = "beyond"
    THEN [Helped("", 0, <<>>, <<>>) EXCEPT !.exc = "Unheld"]
    ELSE IF partial # PyNone /\ ~Compiles(partial.s)
    THEN Helped("Invalid regex", 0, <<>>, <<>>)
    ELSE
    LET names == IF partial = PyNone THEN DOMAIN command_set
                 ELSE {cmd \in DOMAIN command_set : Search(partial.s, cmd)}
        matches == SortedByLower(names)
    IN  IF names = {} THEN Helped("No commands found.", 0, <<>>, <<>>)
        ELSE IF Len(matches) = 1 THEN Helped("", 0, <<>>, matches[1])
        ELSE Helped("Found matching commands:", Len(matches),
                    [i \in 1..Len(matches) |-> SummaryLine(command_set, matches[i])],
                    <<>>)

\* the patterns a caller passes
Partials ==
    { PyNone, PyStr(<<"(">>), PyStr(<<"v","o","l">>), PyStr(<<"T">>),
      PyStr(<<"z","z">>), PyStr(<<"S","T">>), PyStr(<<>>), PyStr(<<"*","R">>),
      PyStr(<<"^","v">>), PyStr(<<"t","$">>), PyStr(<<"^","c",".","r","r","$">>),
      PyStr(<<".","e">>), PyStr(<<"^","*","R">>), PyStr(<<"[">>), PyStr(<<"x",")">>),
      PyStr(<<"(","v",")","o","l","t">>), PyStr(<<"[","c","m","]",".","+","\\","w">>),
      PyStr(<<"r","r","|",":","s">>), PyStr(<<"\\">>) }

\* help(partial) runs to its return
Help ==
    /\ pc = "idle"
    /\ \E partial \in Partials :
        /\ pc' = "helped"
        /\ command' = <<>>
        /\ args' = <<partial>>
        /\ result' = HelpRun(catalog, partial)
        /\ UNCHANGED <<catalog, files, loads, warnings, frames, cnx>>

-----------------------------------------------------------------------------
(* The engine with all its operations, on well-formed and on malformed catalogs *)

\* optional definitions whose default fails their own definition, by value and by type
BadDefaultValue ==
    [type |-> "int", required |-> FALSE, default |-> PyInt(9),
     range |-> PyList(<<PyInt(1), PyInt(4)>>)]
BadDefaultType == [type |-> "int", required |-> FALSE, default |-> PyStr(<<"x">>)]
OptionalNoType == [required |-> FALSE]

\* the definition lists of the engine's VOLT command: three well-formed, the others
\* with a malformed definition
EngineDefLists ==
    { <<ChannelDef, LevelDef>>, <<ChannelDefault, StepsDef>>, <<ModeDef>>,
      <<NoTypeDef>>, <<OptionalNoType>>, <<ChannelDef, NoTypeDef>>, <<OddTypeDef>>,
      <<BadDefaultValue>>, <<BadDefaultType>>, <<BadDefaultValue, LevelDef>> }

EngineCatalogs == {Overlay(CommonCommands, DeviceCommands(L)) : L \in EngineDefLists}

InitEngine ==
    \E arg_defs \in EngineDefLists :
        /\ files = DataFiles(DeviceCommands(arg_defs))
        /\ Constructed(files)

NextEngine ==
    \/ Call
    \/ Get
    \/ CheckArgument
    \/ Help
    \/ Return

SpecEngine == InitEngine /\ [][NextEngine]_vars

-----------------------------------------------------------------------------
(* C12: malformed catalog entries *)

\* the call runs into a malformed entry: a query form declared without a response
\* definition; a first value validated against a first definition without a type; no
\* value for a sole optional definition whose default fails its own definition
QueryWithoutResponse ==
    /\ CallDone /\ FormDefined /\ QueryCall
    /\ ~("response" \in DOMAIN catalog[CallName] /\ catalog[CallName].response # PyNone)
ValueMeetsNoType ==
    /\ CallDone /\ FormUsable
    /\ Len(args) >= 1 /\ Len(Defs) >= 1
    /\ "type" \notin DOMAIN Defs[1]
DefaultFailsItself ==
    /\ CallDone /\ FormUsable
    /\ args = <<>> /\ Len(Defs) = 1
    /\ ~DefIsRequired(Defs[1]) /\ DefHasDefault(Defs[1])
    /\ ~Accepts(Defs[1].default, Defs[1])

\* the exception classes that report caller input
CallerInputErrors == {UnknownCommand.exc, ArgumentTypeError.exc, ArgumentValueError.exc}

\* C12 (as claimed): a malformed catalog entry makes validate_command fail with
\* DefinitionError, an error kind distinct from the kinds that report caller input
\* (UnknownCommand, ArgumentTypeError, ArgumentValueError).
C12_DefinitionErrorDistinct ==
    (QueryWithoutResponse \/ ValueMeetsNoType \/ DefaultFailsItself) =>
        /\ result.exc # "None"
        /\ result.exc \notin CallerInputErrors

-----------------------------------------------------------------------------
(* C13: get *)

GetDone == pc = "got"

\* C13 (as claimed): get(command) strips an optional trailing query marker and returns
\* the definition stored under the base name, for a command given with the marker and
\* for one given without it, and fails with UnknownCommand when the base name is not
\* in the catalog.
C13_GetByBaseName ==
    GetDone =>
        IF CmdKnown
        THEN result.exc = "None" /\ result.value = catalog[CallName]
        ELSE result = UnknownCommand

-----------------------------------------------------------------------------
(* Construction: CommandSet.__init__ on a data directory *)

\* what a device file says about a name the common file has as well
OverridingDef(name) ==
    IF name = STAT THEN [set |-> PyList(<<StateDef>>)]
    ELSE [set |-> PyNone, query |-> PyList(<<>>),
          response |-> PyList(<<[type |-> "bool"]>>)]

\* a device catalog that also redefines the given common names
DeviceOverriding(arg_defs, names) ==
    [name \in {VOLT, MEAS} \cup names |->
        IF name \in names THEN OverridingDef(name) ELSE DeviceCommands(arg_defs)[name]]

\* the data directories an engine is constructed on; one lacks the device file
CommonOnly == [fname \in {command_file_common} |-> [commands |-> CommonCommands]]
BuildDirs ==
    {DataFiles(DeviceOverriding(L, names)) : L \in DefLists, names \in SUBSET {RST, STAT}}
        \cup {CommonOnly}

InitBuild ==
    /\ files \in BuildDirs
    /\ catalog = NoCatalog
    /\ pc = "new"
    /\ command = <<>>
    /\ args = <<>>
    /\ result = NoResult
    /\ loads = <<>>
    /\ warnings = <<>>
    /\ frames = NoCalls
    /\ cnx = NoConnection

\* SCPICommandSet(DeviceFile), the class as the repository defines it: _help_command
\* is abstract in CommandSet and SCPICommandSet does not define it, so the call raises
\* TypeError before __init__ runs and the loader is not called
Instantiate ==
    /\ pc = "new"
    /\ pc' = "failed"
    /\ result' = Raised("TypeError", "Can't instantiate abstract class")
    /\ UNCHANGED <<catalog, command, args, files, loads, warnings, frames, cnx>>

\* the construction of an engine, an instance of a subclass of SCPICommandSet that
\* defines _help_command: CommandSet.__init__(DeviceFile) runs to its return or raise
Construct ==
    /\ pc = "new"
    /\ LET new == NewCommandSet(files, DeviceFile)
       IN  /\ pc' = IF new.exc = "None" THEN "built" ELSE "failed"
           /\ catalog' = new.command_set
           /\ loads' = loads \o new.loads
           /\ result' = IF new.exc = "None" THEN NoResult ELSE Raised(new.exc, "")
    /\ UNCHANGED <<command, args, files, warnings, frames, cnx>>

\* the documents a data file is rewritten with
UpdateDocs ==
    { [commands |-> CommonCommands], [commands |-> DeviceOverriding(<<ModeDef>>, {STAT})],
      [commands |-> DeviceCommands(<<>>)] }

\* utilities.update_data_file(fname, data) on a file the directory holds: the file is
\* rewritten with data (for a name the directory lacks the call raises
\* FileNotFoundError and writes nothing); an engine built before keeps its command set
UpdateDataFile ==
    \E fname \in DOMAIN files, data \in UpdateDocs :
        /\ files[fname] # data
        /\ files' = [files EXCEPT ![fname] = data]
        /\ UNCHANGED <<catalog, pc, command, args, result, loads, warnings, frames, cnx>>

NextBuild ==
    \/ Instantiate
    \/ Construct
    \/ UpdateDataFile

SpecBuild == InitBuild /\ [][NextBuild]_vars

-----------------------------------------------------------------------------
(* C14: the overlay *)

Built == pc = "built"
CommonFile == files[command_file_common].commands
DeviceDoc == files[DeviceFile].commands

\* a step that constructs an engine
Constructs == pc = "new" /\ pc' = "built"

\* C14: after construction the catalog maps every name of the device catalog to exactly
\* the device catalog's definition and every name present only in the common catalog
\* to the common definition; the loader was called exactly twice, common catalog first.
C14_OverlayWholesale ==
    [][Constructs =>
        /\ DOMAIN catalog' = DOMAIN CommonFile \cup DOMAIN DeviceDoc
        /\ \A name \in DOMAIN DeviceDoc : catalog'[name] = DeviceDoc[name]
        /\ \A name \in DOMAIN CommonFile \ DOMAIN DeviceDoc : catalog'[name] = CommonFile[name]
        /\ loads' = <<command_file_common, DeviceFile>>]_vars

\* C14 witness: the device file redefines STAT without the query form the common file
\* gives it, and keeps *RST from the common file
C14_Witness ==
    /\ Built
    /\ STAT \in DOMAIN DeviceDoc /\ RST \notin DOMAIN DeviceDoc
    /\ "query" \in DOMAIN CommonFile[STAT]
    /\ "query" \notin DOMAIN catalog[STAT]
    /\ catalog[RST] = CommonFile[RST]

-----------------------------------------------------------------------------
(* C15: the catalog after construction *)

\* C15: after any sequence of get, validate_argument, validate_command (succeeding or
\* failing) and help calls, the catalog and every argument definition in it are
\* identical to their state right after construction: no step changes the catalog.
C15_CatalogUnchanged == [][catalog' = catalog]_vars

\* C15 witness: a validate_command call that filled in the default of a definition
\* has returned, on a catalog that is still the one the constructor built
C15_Witness ==
    /\ CallDone /\ CallReturned /\ FormUsable
    /\ \E i \in 1..Len(Defs) :
        /\ ~DefIsRequired(Defs[i]) /\ DefHasDefault(Defs[i])
        /\ ValuesAt(i, 1) = <<>>
    /\ catalog = NewCommandSet(files, DeviceFile).command_set

-----------------------------------------------------------------------------
(* Concurrent callers of validate_command on one engine.  A call runs in steps, *)
(* between which the other callers may run: form resolution, one step per value  *)
(* of the matching loop, the default fill, the string assembly.                  *)

\* mutant: matched_args is kept on the engine, where a caller finds what another
\* caller in the middle of its call has recorded
Frame_SharedMatches(all_frames, c) ==
    LET busy == {d \in Callers \ {c} : all_frames[d].pc \in {"match", "defaults", "build"}}
    IN  IF busy = {} THEN all_frames[c]
        ELSE [all_frames[c] EXCEPT
                !.matched_args = all_frames[CHOOSE d \in busy : TRUE].matched_args]

\* the locals of caller c's call: every call has its own
Frame(all_frames, c) == all_frames[c]

\* the call raises or returns
Finish(frame, outcome) == [frame EXCEPT !.pc = "done", !.result = outcome]

\* the argument definitions of the call's form (once the form is resolved)
FrameDefs(command_set, frame) ==
    ArgDefsOf(command_set[Base(frame.command)], IsQuery(frame.command)).items

\* form resolution, form support check and emptiness shortcut
ResolveStep(command_set, frame) ==
    IF Base(frame.command) \notin DOMAIN command_set
    THEN Finish(frame, Raised("SCPIUnknownCommandError", "Base command not found."))
    ELSE
    LET cmd_def == command_set[Base(frame.command)]
        form_defs == ArgDefsOf(cmd_def, IsQuery(frame.command))
    IN  IF form_defs = PyNone
        THEN Finish(frame, Raised("SCPIUnknownCommandError",
                                  IF IsQuery(frame.command)
                                  THEN "Query format not supported."
                                  ELSE "Set format not supported."))
        ELSE IF IsQuery(frame.command) /\ ~IsSet(cmd_def, "response")
        THEN Finish(frame, Raised("SCPIUnknownCommandError",
                "Command definition error: Query supported but no responce format set."))
        ELSE IF NoArgsButRequired(frame.args, form_defs.items)
        THEN Finish(frame, Raised("SCPIArgumentError",
                                  "No arguments, but arguments required!"))
        ELSE [frame EXCEPT !.pc = "match", !.this_arg_val = 1, !.this_arg_def = 1,
                           !.matched_args = NoMatches]

\* one pass of the loop over args; past the last value, on to the default fill
MatchStep(command_set, frame) ==
    LET arg_defs == FrameDefs(command_set, frame)
    IN  IF frame.this_arg_val > Len(frame.args) THEN [frame EXCEPT !.pc = "defaults"]
        ELSE IF RanOutOfDefs(arg_defs, frame.this_arg_def)
        THEN Finish(frame, Raised("SCPIArgumentError", "Too many arguments supplied?"))
        ELSE LET this_arg == frame.args[frame.this_arg_val]
                 scan == ScanDefs(this_arg, arg_defs, frame.this_arg_def, "None")
             IN  IF scan.raised.exc # "None" THEN Finish(frame, scan.raised)
                 ELSE [frame EXCEPT
                         !.this_arg_val = @ + 1,
                         !.this_arg_def = NextArgDef(arg_defs, scan.matched_def_index),
                         !.matched_args = Record(@, scan.matched_def_index, this_arg)]

\* the default fill; when a default is invalid the call raises with the defaults
\* filled in before it in matched_args
DefaultsStep(command_set, frame) ==
    LET f == FillDefaults(FrameDefs(command_set, frame), 1, frame.matched_args)
    IN  IF f.raised.exc # "None"
        THEN Finish([frame EXCEPT !.matched_args = f.matched_args], f.raised)
        ELSE [frame EXCEPT !.pc = "build", !.matched_args = f.matched_args]

\* the string assembly
BuildStep(command_set, frame) ==
    Finish(frame, Returned(CmdString(frame.command,
                CleanedArgs(FrameDefs(command_set, frame), 1, frame.matched_args))))

\* the calls the concurrent callers make
ConcurrentDefLists ==
    { <<ChannelDef, LevelDef>>, <<ChannelDefault, StepsDef>>, <<ModeDef, TagsDef>>,
      <<ChannelDefault, BadDefaultValue>> }
ConcurrentCommands == {VOLT, VOLT \o <<"?">>, MEAS, FREQ}
ConcurrentArgs ==
    { <<>>, <<PyInt(2)>>, <<PyFloat(125)>>, <<PyInt(2), PyFloat(125)>>,
      <<PyStr(<<"v","o","l","t">>)>>, <<PyFloat(125), PyFloat(125), PyInt(70)>> }

InitConcurrent ==
    \E arg_defs \in ConcurrentDefLists :
        /\ files = DataFiles(DeviceCommands(arg_defs))
        /\ Constructed(files)

\* caller c calls validate_command(cmd, *call_args)
Enter(c) ==
    /\ frames[c].pc = "idle"
    /\ \E cmd \in ConcurrentCommands, call_args \in ConcurrentArgs :
        frames' = [frames EXCEPT ![c] =
                      [NoFrame EXCEPT !.pc = "resolve", !.command = cmd, !.args = call_args]]
    /\ UNCHANGED <<catalog, pc, command, args, result, files, loads, warnings, cnx>>

\* caller c runs the next step of its call
Step(c) ==
    /\ frames[c].pc \in {"resolve", "match", "defaults", "build"}
    /\ frames' = [frames EXCEPT ![c] =
            CASE frames[c].pc = "resolve" -> ResolveStep(catalog, Frame(frames, c))
              [] frames[c].pc = "match" -> MatchStep(catalog, Frame(frames, c))
              [] frames[c].pc = "defaults" -> DefaultsStep(catalog, Frame(frames, c))
              [] frames[c].pc = "build" -> BuildStep(catalog, Frame(frames, c))]
    /\ UNCHANGED <<catalog, pc, command, args, result, files, loads, warnings, cnx>>

\* caller c has taken the result of its call
Leave(c) ==
    /\ frames[c].pc = "done"
    /\ frames' = [frames EXCEPT ![c] = NoFrame]
    /\ UNCHANGED <<catalog, pc, command, args, result, files, loads, warnings, cnx>>

NextConcurrent ==
    \E c \in Callers :
        \/ Enter(c)
        \/ Step(c)
        \/ Leave(c)

SpecConcurrent == InitConcurrent /\ [][NextConcurrent]_vars

-----------------------------------------------------------------------------
(* C16: concurrent callers *)

\* every finished call has the result the call gives when it runs alone
SameAsAlone ==
    \A c \in Callers :
        frames[c].pc = "done" =>
            frames[c].result = ValidateCommand(catalog, frames[c].command, frames[c].args)

\* a step writes the locals of one call and nothing the callers share
OwnLocalsOnly ==
    /\ catalog' = catalog
    /\ \E c \in Callers : \A d \in Callers \ {c} : frames'[d] = frames[d]

\* C16: concurrent validate_command calls on one shared engine return, in every
\* interleaving and without locking, the result each call returns when run alone: the
\* calls share no mutable state besides the read-only catalog.
C16_SameAsAlone == []SameAsAlone /\ [][OwnLocalsOnly]_vars

\* C16 witness: a call with two values has returned while another call of the same
\* command, with other values, is in the middle of its matching loop
C16_Witness ==
    \E c \in Callers, d \in Callers :
        /\ c # d
        /\ frames[c].pc = "done" /\ frames[c].result.exc = "None"
        /\ Len(frames[c].args) = 2
        /\ frames[d].pc = "match" /\ frames[d].this_arg_val = 2
        /\ frames[d].command = frames[c].command
        /\ frames[d].args # frames[c].args

-----------------------------------------------------------------------------
(* The device wrapper: SCPIDevice._normalize_set_value and the normalisation of *)
(* the arguments of a write (pylab/devices/scpidevice.py)                        *)

\* the validator's get(command), as the specification's Lookup describes it: strip a
\* trailing query marker, look the base name up, fail when it is absent (the wrapper
\* catches KeyError)
ValidatorGet(command_set, cmd) ==
    IF Base(cmd) \in DOMAIN command_set
    THEN [exc |-> "None", cmd_def |-> command_set[Base(cmd)]]
    ELSE [exc |-> "KeyError", cmd_def |-> PyNone]

\* SCPIDevice.get_command_def(command)
GetCommandDef(command_set, cmd) == ValidatorGet(command_set, cmd)


IsDigits(s) == s # <<>> /\ \A i \in 1..Len(s) : \E d \in 1..10 : Digits[d] = s[i]

\* the digits of a number as int() and float() read them: decimal digits, with single
\* underscores allowed between two digits ("1_0" is 10; "_1", "1_" and "1__0" are not
\* numbers)
IsDigitRun(s) ==
    /\ s # <<>>
    /\ \A i \in 1..Len(s) :
        \/ IsDigits(<<s[i]>>)
        \/ /\ s[i] = "_" /\ 1 < i /\ i < Len(s)
           /\ IsDigits(<<s[i - 1]>>) /\ IsDigits(<<s[i + 1]>>)
DigitsOf(s) == SelectSeq(s, LAMBDA c : c # "_")

\* a conversion's outcome: the number, or the exception the conversion raises
Converted(num) == [exc |-> "None", num |-> num]
NotConverted(exc) == [exc |-> exc, num |-> PyNone]

\* float() gives a float the tenths of this model cannot hold: inf, nan, or a value
\* that is not a whole number of tenths, or is beyond a 32-bit count of them
Unheld == [exc |-> "Unheld", num |-> PyNone]

\* the blanks int() and float() skip around the text of an ASCII string: space, tab, line
\* feed, vertical tab, form feed and carriage return, and not the separators 0x1c..0x1f
IsBlank(c) == c \in {" ", "\t", "\n", "\r", "\f", ""}

RECURSIVE Unblanked(_)
Unblanked(s) ==
    IF s # <<>> /\ IsBlank(Head(s)) THEN Unblanked(Tail(s))
    ELSE IF s # <<>> /\ IsBlank(s[Len(s)]) THEN Unblanked(SubSeq(s, 1, Len(s) - 1))
    ELSE s

\* a sign and the digits after it
Unsigned(s) == IF s # <<>> /\ Head(s) \in {"-", "+"} THEN Tail(s) ELSE s
Signed(s, n) == IF s # <<>> /\ Head(s) = "-" THEN 0 - n ELSE n

\* int(value): an int as it is, a bool as 0 or 1, a float truncated toward zero, a
\* string of digits (sign, underscores between digits and surrounding whitespace
\* allowed) as its number; anything else raises
PyIntOf(value) ==
    CASE value.t \in {"int", "bool"} -> Converted(PyInt(value.n))
      [] value.t = "float" ->
            Converted(PyInt(IF value.n >= 0 THEN value.n \div 10
                            ELSE 0 - ((0 - value.n) \div 10)))
      [] value.t = "str" ->
            LET txt == Unblanked(value.s)
            IN  IF IsDigitRun(Unsigned(txt))
                THEN Converted(PyInt(Signed(txt, NatOf(DigitsOf(Unsigned(txt))))))
                ELSE NotConverted("ValueError")
      [] OTHER -> NotConverted("TypeError")

RECURSIVE Pow10(_)
Pow10(k) == IF k = 0 THEN 1 ELSE 10 * Pow10(k - 1)

\* the first place of one of the characters cs in s, 0 when there is none
FirstOf(s, cs) ==
    IF \E i \in 1..Len(s) : s[i] \in cs
    THEN CHOOSE i \in 1..Len(s) : s[i] \in cs /\ \A j \in 1..(i - 1) : s[j] \notin cs
    ELSE 0

\* float(text) for a string without its sign, in tenths: digits, a point with digits
\* on at least one side, and an exponent, each optional as Python's grammar has them
FloatOfText(body) ==
    LET e == FirstOf(body, {"e", "E"})
        mant == IF e = 0 THEN body ELSE SubSeq(body, 1, e - 1)
        exptxt == IF e = 0 THEN <<>> ELSE SubSeq(body, e + 1, Len(body))
        dot == FirstOf(mant, {"."})
        intpart == IF dot = 0 THEN mant ELSE SubSeq(mant, 1, dot - 1)
        fracpart == IF dot = 0 THEN <<>> ELSE SubSeq(mant, dot + 1, Len(mant))
        mant_ok == IF dot = 0 THEN IsDigitRun(mant)
                   ELSE /\ intpart = <<>> \/ IsDigitRun(intpart)
                        /\ fracpart = <<>> \/ IsDigitRun(fracpart)
                        /\ intpart # <<>> \/ fracpart # <<>>
        exp_ok == e = 0 \/ IsDigitRun(Unsigned(exptxt))
        digits == NatOf(DigitsOf(intpart) \o DigitsOf(fracpart))
        exponent == IF e = 0 THEN 0 ELSE Signed(exptxt, NatOf(DigitsOf(Unsigned(exptxt))))
        k == exponent - Len(DigitsOf(fracpart)) + 1
    IN  IF Upper(body) \in { <<"I","N","F">>, <<"I","N","F","I","N","I","T","Y">>,
                             <<"N","A","N">> }
        THEN Unheld
        ELSE IF ~(mant_ok /\ exp_ok) THEN NotConverted("ValueError")
        ELSE IF digits = 0 THEN Converted(PyFloat(0))
        ELSE IF k > 8 \/ k < 0 - 8 THEN Unheld
        ELSE IF k >= 0 THEN Converted(PyFloat(digits * Pow10(k)))
        ELSE IF digits % Pow10(0 - k) = 0 THEN Converted(PyFloat(digits \div Pow10(0 - k)))
        ELSE Unheld

\* float(value), in tenths: a number as a float, a string as the number it writes
\* (sign and surrounding whitespace allowed); anything else raises
PyFloatOf(value) ==
    CASE value.t \in {"int", "bool", "float"} -> Converted(PyFloat(Tenths(value)))
      [] value.t = "str" ->
            LET txt == Unblanked(value.s)
                conv == FloatOfText(Unsigned(txt))
            IN  IF conv.exc = "None" THEN Converted(PyFloat(Signed(txt, conv.num.n)))
                ELSE conv
      [] OTHER -> NotConverted("TypeError")

\* what _normalize_set_value gives: the value it returns and the warnings it logs, or
\* the exception it raises after the warnings logged until then
Normalized(value, logged) == [exc |-> "None", value |-> value, warnings |-> logged]
NormalizeRaised(exc, logged) == [exc |-> exc, value |-> PyNone, warnings |-> logged]

\* bool(v) is False: None, an empty list or string, a zero
Falsy(v) ==
    \/ v.t = "NoneType"
    \/ v.t = "list" /\ v.items = <<>>
    \/ v.t = "str" /\ v.s = <<>>
    \/ v.t \in {"bool", "int", "float"} /\ v.n = 0

\* arg_def.get("range") or [None, None]
RangeOf(arg_def) ==
    IF Has(arg_def, "range") /\ ~Falsy(arg_def.range) THEN arg_def.range
    ELSE PyList(<<PyNone, PyNone>>)

\* the items a list or a string unpacks into; <<>> for what is not iterable
ItemsOf(rng) ==
    IF rng.t = "list" THEN rng.items
    ELSE IF rng.t = "str" THEN [i \in 1..Len(rng.s) |-> PyStr(<<rng.s[i]>>)]
    ELSE <<>>

\* rng[k - 1]: the item, IndexError past the end, TypeError for what has no items
Subscript(rng, k) ==
    IF rng.t \notin {"list", "str"} THEN [exc |-> "TypeError", item |-> PyNone]
    ELSE IF k > Len(ItemsOf(rng)) THEN [exc |-> "IndexError", item |-> PyNone]
    ELSE [exc |-> "None", item |-> ItemsOf(rng)[k]]

\* lines 74-82: low, high = rng unpacks exactly two items (ValueError otherwise,
\* TypeError for what is not iterable); a bound that is not None is compared with the
\* number (TypeError when it is not a number itself)
Clamp(num, rng) ==
    LET low == ItemsOf(rng)[1]
        high == ItemsOf(rng)[2]
        below == low # PyNone /\ Tenths(num) < Tenths(low)
        clamped == IF below THEN low ELSE num
        to_min == IF below THEN <<"Clamping to min">> ELSE <<>>
        above == high # PyNone /\ Tenths(clamped) > Tenths(high)
    IN  IF rng.t \notin {"list", "str"} THEN NormalizeRaised("TypeError", <<>>)
        ELSE IF Len(ItemsOf(rng)) # 2 THEN NormalizeRaised("ValueError", <<>>)
        ELSE IF low # PyNone /\ ~IsIntOrFloat(low) THEN NormalizeRaised("TypeError", <<>>)
        ELSE IF high # PyNone /\ ~IsIntOrFloat(high) THEN NormalizeRaised("TypeError", to_min)
        ELSE Normalized(IF above THEN high ELSE clamped,
                        to_min \o (IF above THEN <<"Clamping to max">> ELSE <<>>))

\* value is the token (MIN or MAX) in any letter case
IsToken(value, token) == IsStr(value) /\ Upper(value.s) = token

TokenMIN == <<"M","I","N">>
TokenMAX == <<"M","A","X">>

\* lines 62-67: the bound in place of a token, when the range has one there
Substitute(value, bound) ==
    IF bound.exc # "None" THEN NormalizeRaised(bound.exc, <<>>)
    ELSE IF bound.item # PyNone THEN Normalized(bound.item, <<>>)
    ELSE Normalized(value, <<>>)

\* _normalize_set_value once arg_def is chosen: token substitution, then conversion
\* and clamping for the numeric types
NormalizeAgainst(arg_def, value) ==
    LET numeric == ~TypeMissing(arg_def) /\ ToString(arg_def.type) \in {ToString("float"), ToString("int")}
        rng == RangeOf(arg_def)
    IN  IF IsToken(value, TokenMIN) THEN Substitute(value, Subscript(rng, 1))
        ELSE IF IsToken(value, TokenMAX) THEN Substitute(value, Subscript(rng, 2))
        ELSE IF numeric
        THEN LET conv == IF arg_def.type = "float" THEN PyFloatOf(value) ELSE PyIntOf(value)
             IN  IF conv.exc = "Unheld" THEN NormalizeRaised("Unheld", <<>>)
                 ELSE IF conv.exc # "None" THEN Normalized(value, <<>>)
                 ELSE Clamp(conv.num, rng)
        ELSE Normalized(value, <<>>)

\* SCPIDevice._normalize_set_value(command, value): the command's first set argument
\* definition decides
NormalizeSetValue(command_set, cmd, value) ==
    LET got == GetCommandDef(command_set, cmd)
    IN  IF got.exc = "KeyError" THEN Normalized(value, <<>>)
        ELSE LET arg_defs == IF Has(got.cmd_def, "set") /\ ~Falsy(got.cmd_def.set)
                             THEN got.cmd_def.set.items ELSE <<>>
             IN  IF arg_defs = <<>> THEN Normalized(value, <<>>)
                 ELSE NormalizeAgainst(arg_defs[1], value)

\* the validator's normalize_value(command, value) that line 99 of write calls, which
\* the repository's sources do not hold; as Value Normalization of the specification
\* has it for one value, the first positional value of the command: for a numeric
\* definition with a declared range a MIN or MAX token becomes the bound when it is
\* defined and a number is clamped into the range, with a warning whenever the value
\* is altered; an unknown command or a position without definition passes through
NormalizeValue(command_set, cmd, value) ==
    LET got == ValidatorGet(command_set, cmd)
        arg_defs == IF got.exc = "None" /\ IsSet(got.cmd_def, "set")
                    THEN got.cmd_def.set.items ELSE <<>>
        d == arg_defs[1]
        ranged == /\ ~TypeMissing(d) /\ ToString(d.type) \in {ToString("float"), ToString("int")}
                  /\ IsSet(d, "range") /\ d.range.t = "list" /\ Len(d.range.items) = 2
        low == d.range.items[1]
        high == d.range.items[2]
        number == value.t \in {"int", "float"}
    IN  IF arg_defs = <<>> \/ ~ranged THEN Normalized(value, <<>>)
        ELSE IF IsToken(value, TokenMIN) /\ low # PyNone
        THEN Normalized(low, <<"Substituting min">>)
        ELSE IF IsToken(value, TokenMAX) /\ high # PyNone
        THEN Normalized(high, <<"Substituting max">>)
        ELSE IF number /\ IsIntOrFloat(low) /\ Tenths(value) < Tenths(low)
        THEN Normalized(low, <<"Clamping to min">>)
        ELSE IF number /\ IsIntOrFloat(high) /\ Tenths(value) > Tenths(high)
        THEN Normalized(high, <<"Clamping to max">>)
        ELSE Normalized(value, <<>>)

\* line 99: normed = [self._cmd_validator.normalize_value(command, a) for a in args],
\* with the warnings in call order
RECURSIVE NormalizeEach(_, _, _)
NormalizeEach(command_set, cmd, call_args) ==
    IF call_args = <<>> THEN Normalized(<<>>, <<>>)
    ELSE LET first == NormalizeValue(command_set, cmd, Head(call_args))
             rest == NormalizeEach(command_set, cmd, Tail(call_args))
         IN  Normalized(<<first.value>> \o rest.value, first.warnings \o rest.warnings)

\* set argument definitions of the device catalogs: a range open below, a ranged
\* variadic definition
OpenLowDef == [type |-> "int", required |-> TRUE, range |-> PyList(<<PyNone, PyInt(4)>>)]
SweepDef ==
    [type |-> "float", required |-> TRUE, variadic |-> TRUE,
     range |-> PyList(<<PyInt(0), PyInt(60)>>)]

DeviceDefLists ==
    { <<ChannelDef, LevelDef>>, <<LevelDef>>, <<LevelDef, ChannelDef>>, <<OpenLowDef>>,
      <<StateDef, LevelDef>>, <<ChannelChoice>>, <<ChannelDef, SweepDef>>, <<ModeDef>> }

-----------------------------------------------------------------------------
(* C26..C28: the argument list and the string of a successful validate_command *)

\* definition i got no supplied value
Unmatched(i) == ValuesAt(i, 1) = <<>>

\* what definition i puts into the output: its supplied values; for an unmatched
\* optional definition its non-null default; nothing otherwise
PieceOf(i) ==
    IF ~Unmatched(i) THEN ValuesAt(i, 1)
    ELSE IF ~DefIsRequired(Defs[i]) /\ DefHasDefault(Defs[i]) THEN <<Defs[i].default>>
    ELSE <<>>
RECURSIVE PiecesFrom(_)
PiecesFrom(i) == IF i > Len(Defs) THEN <<>> ELSE PieceOf(i) \o PiecesFrom(i + 1)

\* C26: on a successful validate_command every unmatched optional definition with a
\* non-null default contributes that default at the definition's position, and every
\* unmatched optional definition without a default contributes nothing.
C26_DefaultsAtPosition ==
    (CallReturned /\ FormUsable) =>
        result.value = Strip(Rendered(command, PiecesFrom(1)))

\* C26 witness: a call has returned whose first definition, optional with a default,
\* got no value while a later definition got one
C26_Witness ==
    /\ CallReturned /\ FormUsable /\ Len(Defs) = 2 /\ Len(args) = 1
    /\ Unmatched(1) /\ ~DefIsRequired(Defs[1]) /\ DefHasDefault(Defs[1])
    /\ ~Unmatched(2)

\* the number of times character c occurs in s
RECURSIVE Count(_, _)
Count(s, c) == IF s = <<>> THEN 0 ELSE (IF Head(s) = c THEN 1 ELSE 0) + Count(Tail(s), c)

\* C27 (as claimed): the string returned for a query form ends with the query marker,
\* carried exactly once, and a call that records zero arguments returns the command
\* with no trailing separator.
C27_MarkerAtEnd ==
    (CallReturned /\ FormUsable) =>
        /\ QueryCall => /\ result.value[Len(result.value)] = "?"
                        /\ Count(result.value, "?") = 1
        /\ PiecesFrom(1) = <<>> => result.value = command

\* the values a successful call returns, taken from args in the order supplied: for
\* each definition as many of the next values as it was matched by, else its default
RECURSIVE InSuppliedOrder(_, _)
InSuppliedOrder(i, k) ==
    IF i > Len(Defs) THEN <<>>
    ELSE LET n == Len(ValuesAt(i, 1))
         IN  (IF n > 0 THEN SubSeq(args, k, k + n - 1) ELSE PieceOf(i))
                \o InSuppliedOrder(i + 1, k + n)

\* the number of supplied values the definitions from i on were matched by
RECURSIVE TakenFrom(_)
TakenFrom(i) == IF i > Len(Defs) THEN 0 ELSE Len(ValuesAt(i, 1)) + TakenFrom(i + 1)

\* C28: on a successful validate_command each supplied argument appears in the
\* returned list exactly once, the supplied arguments keep their order, and the only
\* other values are defaults of unmatched optional definitions.
C28_SuppliedOnceInOrder ==
    (CallReturned /\ FormUsable) =>
        /\ TakenFrom(1) = Len(args)
        /\ result.value = Strip(Rendered(command, InSuppliedOrder(1, 1)))

\* C28 witness: a call has returned whose variadic definition absorbed two different
\* values
C28_Witness ==
    /\ CallReturned /\ FormUsable /\ Len(args) = 2
    /\ \E i \in 1..Len(Defs) : DefIsVariadic(Defs[i]) /\ Len(ValuesAt(i, 1)) = 2
    /\ Str(args[1]) # Str(args[2])

-----------------------------------------------------------------------------
(* help on catalogs whose names mix the letter cases and whose commands carry help *)
(* texts, one of them longer than the display width                               *)

Curr == <<"c","u","r","r">>
VoltStep == <<"V","o","l","t",":","S","t","e","p">>
HelpNames == {VOLT, Curr, VoltStep, MEAS}

ShortHelp == <<"S","e","t"," ","i","t">>
LongHelp == [i \in 1..90 |-> IF i % 10 = 0 THEN " " ELSE "h"]

\* a device catalog of the given names: one command without a help text
HelpCommands(names) ==
    [name \in names |->
        IF name = MEAS THEN [query |-> PyList(<<>>), response |-> PyList(<<[type |-> "float"]>>)]
        ELSE [set |-> PyList(<<>>),
              help |-> PyStr(IF name = Curr THEN LongHelp ELSE ShortHelp)]]

InitHelp ==
    \E names \in SUBSET HelpNames :
        /\ files = DataFiles(HelpCommands(names))
        /\ Constructed(files)

NextHelp == Help \/ Return

SpecHelp == InitHelp /\ [][NextHelp]_vars

-----------------------------------------------------------------------------
(* C25: help *)

HelpDone == pc = "helped"
Pattern == args[1]

\* the pattern is one re.compile rejects
BadPattern == Pattern # PyNone /\ ~Compiles(Pattern.s)

\* the names help selects
Selected ==
    IF Pattern = PyNone THEN DOMAIN catalog
    ELSE {name \in DOMAIN catalog : Search(Pattern.s, name)}

\* the name a summary line is about
LineIsAbout(line, name) ==
    /\ Len(line) >= Len(name) + 4
    /\ SubSeq(line, 1, Len(name) + 4) = <<">", " ">> \o name \o <<":", " ">>

\* name a comes before name b when the letter case is ignored
RECURSIVE Before(_, _)
Before(a, b) ==
    IF b = <<>> THEN FALSE
    ELSE IF a = <<>> THEN TRUE
    ELSE IF Upper(<<Head(a)>>) = Upper(<<Head(b)>>) THEN Before(Tail(a), Tail(b))
    ELSE Rank(Head(a)) < Rank(Head(b))

\* C25: help(pattern) selects the names matched by a case-insensitive regular
\* expression search (all names when no pattern is given) and dispatches on the number
\* of matches: none reports that no commands were found, exactly one renders that
\* command in detail, more than one renders one summary line per match sorted
\* case-insensitively by name; an invalid pattern is reported and renders nothing.
C25_HelpDispatch ==
    HelpDone =>
        IF BadPattern
        THEN result.report = "Invalid regex" /\ result.lines = <<>> /\ result.detail = <<>>
        ELSE CASE Selected = {} ->
                    /\ result.report = "No commands found."
                    /\ result.lines = <<>> /\ result.detail = <<>>
               [] Cardinality(Selected) = 1 ->
                    /\ result.detail \in Selected
                    /\ result.lines = <<>> /\ result.report = ""
               [] OTHER ->
                    /\ result.detail = <<>>
                    /\ result.found = Cardinality(Selected)
                    /\ Len(result.lines) = Cardinality(Selected)
                    /\ \A name \in Selected :
                        \E i \in 1..Len(result.lines) : LineIsAbout(result.lines[i], name)
                    /\ \A i \in 1..Len(result.lines), j \in 1..Len(result.lines) :
                        i < j =>
                            \E a \in Selected, b \in Selected :
                                /\ LineIsAbout(result.lines[i], a)
                                /\ LineIsAbout(result.lines[j], b)
                                /\ Before(a, b)

\* C25 witness: a pattern with a dot, given in small letters, has selected names in
\* both letter cases and help has printed their summary lines
C25_Witness ==
    /\ HelpDone /\ Pattern # PyNone /\ ~BadPattern
    /\ \E j \in 1..Len(Pattern.s) : Pattern.s[j] = "."
    /\ VOLT \notin Selected
    /\ {MEAS, VoltStep} \subseteq Selected
    /\ Len(result.lines) >= 2

-----------------------------------------------------------------------------
(* Excel cell addresses: pylab/fileio/excel/cellmath.py *)

\* mutant: the column in ordinary base 26, without the decrement of each round
RECURSIVE col_to_letter_Plain(_)
col_to_letter_Plain(col_num) ==
    IF col_num <= 0 THEN <<>>
    ELSE col_to_letter_Plain(col_num \div 26) \o <<Capital[(col_num % 26) + 1]>>

\* col_to_letter(col_num): the while loop, one letter per round
RECURSIVE col_to_letter(_)
col_to_letter(col_num) ==
    IF col_num <= 0 THEN <<>>
    ELSE col_to_letter((col_num - 1) \div 26) \o <<Capital[((col_num - 1) % 26) + 1]>>

\* to_address(row, col, row2, col2); PyNone for an index that is not given
to_address(row, col, row2, col2) ==
    LET start_cell == col_to_letter(col) \o IntStr(row)
    IN  IF row2 # PyNone /\ col2 # PyNone
        THEN start_cell \o <<":">> \o col_to_letter(col2.n) \o IntStr(row2.n)
        ELSE start_cell

IsAlpha(c) == \E i \in 1..26 : Capital[i] = c \/ Lower[i] = c

\* letter_to_col(letters)
RECURSIVE letter_to_col(_)
letter_to_col(letters) ==
    IF letters = <<>> THEN 0
    ELSE letter_to_col(SubSeq(letters, 1, Len(letters) - 1)) * 26
         + (CHOOSE i \in 1..26 : Capital[i] = UpperChar(letters[Len(letters)]))

\* parse_cell(cell): <<row, col>>; int("") raises when the cell has no digit
parse_cell(cell) ==
    LET letters == SelectSeq(cell, IsAlpha)
        numbers == SelectSeq(cell, IsDigit)
    IN  IF numbers = <<>> THEN Raised("ValueError", "")
        ELSE Returned(<<NatOf(numbers), letter_to_col(letters)>>)

\* the place of the first ":" in address
Colon(address) == CHOOSE i \in 1..Len(address) : address[i] = ":" /\ \A j \in 1..(i - 1) : address[j] # ":"

\* from_address(address): two indices for a cell, four for a range; the unpacking of
\* address.split(':') raises when there is more than one colon
from_address(address) ==
    IF \A i \in 1..Len(address) : address[i] # ":" THEN parse_cell(address)
    ELSE IF Cardinality({i \in 1..Len(address) : address[i] = ":"}) > 1
    THEN Raised("ValueError", "")
    ELSE LET first == parse_cell(SubSeq(address, 1, Colon(address) - 1))
             second == parse_cell(SubSeq(address, Colon(address) + 1, Len(address)))
         IN  IF first.exc # "None" THEN first
             ELSE IF second.exc # "None" THEN second
             ELSE Returned(first.value \o second.value)

\* the rows and columns the model addresses: around the places where the number of
\* digits and of letters grows
CellRows == {1, 9, 10, 100}
CellCols == {1, 2, 26, 27, 52, 53, 702, 703}

\* nothing constructed: the functions of a module are called
InitCell ==
    /\ files = [fname \in {} |-> PyNone]
    /\ catalog = NoCatalog
    /\ loads = <<>>
    /\ pc = "idle"
    /\ command = <<>>
    /\ args = <<>>
    /\ result = NoResult
    /\ warnings = <<>>
    /\ frames = NoCalls
    /\ cnx = NoConnection

\* to_address(row, col) and to_address(row, col, row2, col2)
ToAddress ==
    /\ pc = "idle"
    /\ \E row \in CellRows, col \in CellCols :
        \/ /\ args' = <<row, col>>
           /\ result' = Returned(to_address(row, col, PyNone, PyNone))
        \/ \E row2 \in CellRows, col2 \in CellCols :
            /\ args' = <<row, col, row2, col2>>
            /\ result' = Returned(to_address(row, col, PyInt(row2), PyInt(col2)))
    /\ pc' = "addressed"
    /\ command' = <<>>
    /\ UNCHANGED <<catalog, files, loads, warnings, frames, cnx>>

\* from_address of the address to_address returned
FromAddress ==
    /\ pc = "addressed"
    /\ pc' = "parsed"
    /\ command' = result.value
    /\ result' = from_address(result.value)
    /\ UNCHANGED <<catalog, args, files, loads, warnings, frames, cnx>>

NextCell == ToAddress \/ FromAddress \/ Return

SpecCell == InitCell /\ [][NextCell]_vars

-----------------------------------------------------------------------------
(* C24: the round trip of cell addresses *)

\* the number a string of capital letters writes in bijective base 26: A..Z are the
\* digits 1..26
RECURSIVE Bijective26(_)
Bijective26(letters) ==
    IF letters = <<>> THEN 0
    ELSE 26 * Bijective26(SubSeq(letters, 1, Len(letters) - 1))
         + (IF \E i \in 1..26 : Capital[i] = letters[Len(letters)]
            THEN CHOOSE d \in 1..26 : Capital[d] = letters[Len(letters)]
            ELSE 0)

\* the letters in front of the row number of a cell address
LettersOf(address, row) == SubSeq(address, 1, Len(address) - Len(IntStr(row)))

\* C24: from_address(to_address(row, col)) = (row, col) and, for ranges,
\* from_address(to_address(r1, c1, r2, c2)) = (r1, c1, r2, c2), for rows and columns
\* from 1 on; the column is written in bijective base-26 letters (1 -> A, 26 -> Z,
\* 27 -> AA).
C24_RoundTrip ==
    /\ pc = "parsed" => result = Returned(args)
    /\ (pc = "addressed" /\ Len(args) = 2) =>
        LET letters == LettersOf(result.value, args[1])
        IN  /\ result.value = letters \o IntStr(args[1])
            /\ \A i \in 1..Len(letters) : \E k \in 1..26 : Capital[k] = letters[i]
            /\ Bijective26(letters) = args[2]
            /\ args[2] = 1 => letters = <<"A">>
            /\ args[2] = 26 => letters = <<"Z">>
            /\ args[2] = 27 => letters = <<"A", "A">>

\* C24 witness: a range between a cell in column Z and a cell in column AAA has made
\* the round trip
C24_Witness ==
    /\ pc = "parsed" /\ Len(args) = 4
    /\ args[2] = 26 /\ args[4] = 703 /\ args[1] # args[3]
    /\ command = <<"Z","1","0",":","A","A","A","1","0","0">>

-----------------------------------------------------------------------------
(* Connections: pylab/communication/Connection.py and mock.py *)

\* what a method hands back: None, a bool, a Status or a str
ReturnedNone == [exc |-> "None", info |-> "NoneType", value |-> <<>>]
ReturnedBool(b) == [exc |-> "None", info |-> "bool", value |-> IF b THEN <<"True">> ELSE <<"False">>]
ReturnedStatus(status) == [exc |-> "None", info |-> "Status", value |-> <<status>>]
ReturnedStr(chars) == [exc |-> "None", info |-> "str", value |-> chars]

\* Status.__bool__ behind Connection.__bool__: only OPEN is true
Bool(self) == self.status = "OPEN"

\* MockConnection(name, address, scripted_responses); calls is the history of the
\* methods called on the connection, kept for the properties
MockConnection(scripted_responses) ==
    [status |-> "CLOSED", write_log |-> <<>>, responses |-> scripted_responses, calls |-> <<>>]

\* each method gives the connection after the call and what the call returned
MockConnection_open(self) ==
    [self |-> [self EXCEPT !.status = "OPEN"], ret |-> ReturnedStatus("OPEN")]

MockConnection_close(self) ==
    [self |-> [self EXCEPT !.status = "CLOSED"], ret |-> ReturnedStatus("CLOSED")]

MockConnection_reset(self) ==
    [self |-> [self EXCEPT !.write_log = <<>>, !.responses = <<>>, !.status = "OPEN"],
     ret |-> ReturnedStatus("OPEN")]

MockConnection_read(self) ==
    IF ~Bool(self) THEN [self |-> self, ret |-> ReturnedNone]
    ELSE IF self.responses # <<>>
    THEN [self |-> [self EXCEPT !.responses = Tail(@)], ret |-> ReturnedStr(Str(Head(self.responses)))]
    ELSE [self |-> self, ret |-> ReturnedStr(<<>>)]

\* mutant: the command is logged whatever the status
MockConnection_write_Unguarded(self, cmd) ==
    [self |-> [self EXCEPT !.write_log = Append(@, Str(cmd))], ret |-> ReturnedBool(Bool(self))]

MockConnection_write(self, cmd) ==
    IF ~Bool(self) THEN [self |-> self, ret |-> ReturnedBool(FALSE)]
    ELSE [self |-> [self EXCEPT !.write_log = Append(@, Str(cmd))], ret |-> ReturnedBool(TRUE)]

MockConnection_query(self, cmd) ==
    LET written == MockConnection_write(self, cmd)
    IN  IF written.ret = ReturnedBool(TRUE) THEN MockConnection_read(written.self)
        ELSE [self |-> written.self, ret |-> ReturnedNone]

MockConnection_preload_responses(self, responses) ==
    [self |-> [self EXCEPT !.responses = @ \o responses], ret |-> ReturnedNone]

\* the longest history of calls the model follows
MaxCalls == 4

\* what the model writes and scripts: strings, and a number for str() to convert
MockCommands == {PyStr(<<"*","R","S","T">>), PyStr(<<"V","?">>), PyInt(7)}
MockResponses == {<<PyStr(<<"1">>)>>, <<PyInt(2), PyStr(<<"A">>)>>}

InitMock ==
    /\ files = [fname \in {} |-> PyNone]
    /\ catalog = NoCatalog
    /\ loads = <<>>
    /\ pc = "idle"
    /\ command = <<>>
    /\ args = <<>>
    /\ result = NoResult
    /\ warnings = <<>>
    /\ frames = NoCalls
    /\ \E scripted \in {<<>>} \cup MockResponses : cnx = MockConnection(scripted)

\* the connection after a call, with the call and what it returned added to the history
Logged(self, op, arg, after) ==
    [after.self EXCEPT !.calls = Append(self.calls, [op |-> op, arg |-> arg, ret |-> after.ret])]

\* one call of a method: the connection changes, the call returns, the history grows
Called(op, arg, after) ==
    /\ Len(cnx.calls) < MaxCalls
    /\ cnx' = Logged(cnx, op, arg, after)
    /\ result' = after.ret
    /\ UNCHANGED <<catalog, pc, command, args, files, loads, warnings, frames>>

MockOpen == Called("open", PyNone, MockConnection_open(cnx))
MockClose == Called("close", PyNone, MockConnection_close(cnx))
MockReset == Called("reset", PyNone, MockConnection_reset(cnx))
MockRead == Called("read", PyNone, MockConnection_read(cnx))
MockWrite == \E cmd \in MockCommands : Called("write", cmd, MockConnection_write(cnx, cmd))
MockQuery == \E cmd \in MockCommands : Called("query", cmd, MockConnection_query(cnx, cmd))
MockPreload ==
    \E responses \in MockResponses :
        Called("preload_responses", PyList(responses), MockConnection_preload_responses(cnx, responses))

NextMock ==
    \/ MockOpen
    \/ MockClose
    \/ MockReset
    \/ MockRead
    \/ MockWrite
    \/ MockQuery
    \/ MockPreload

SpecMock == InitMock /\ [][NextMock]_vars

-----------------------------------------------------------------------------
(* C29: the write log of a MockConnection *)

Front(calls) == SubSeq(calls, 1, Len(calls) - 1)
Last(calls) == calls[Len(calls)]

\* the status a history of calls leaves, told from the names of the calls alone
RECURSIVE StatusAfter(_)
StatusAfter(calls) ==
    IF calls = <<>> THEN "CLOSED"
    ELSE IF Last(calls).op \in {"open", "reset"} THEN "OPEN"
    ELSE IF Last(calls).op = "close" THEN "CLOSED"
    ELSE StatusAfter(Front(calls))

\* the commands written while the status was OPEN since the last reset
RECURSIVE WrittenWhileOpen(_)
WrittenWhileOpen(calls) ==
    IF calls = <<>> THEN <<>>
    ELSE IF Last(calls).op = "reset" THEN <<>>
    ELSE IF Last(calls).op \in {"write", "query"} /\ StatusAfter(Front(calls)) = "OPEN"
    THEN Append(WrittenWhileOpen(Front(calls)), Str(Last(calls).arg))
    ELSE WrittenWhileOpen(Front(calls))

LogIsWritten == cnx.write_log = WrittenWhileOpen(cnx.calls)

\* a step that is a write or a read on a connection that is not OPEN
RefusedStep(op) ==
    /\ Len(cnx'.calls) = Len(cnx.calls) + 1
    /\ Last(cnx'.calls).op = op
    /\ cnx.status # "OPEN"

NotOpenIsRefused ==
    /\ RefusedStep("write") => result' = ReturnedBool(FALSE)
    /\ RefusedStep("read") => result' = ReturnedNone
    /\ (RefusedStep("write") \/ RefusedStep("read")) =>
        /\ cnx'.write_log = cnx.write_log
        /\ cnx'.responses = cnx.responses

\* C29: in any sequence of open, close, reset, write, read and preload_responses on a
\* MockConnection the write log is the sequence of the commands written while the
\* status was OPEN since the last reset, and a write or read while the status is not
\* OPEN returns False / None and changes neither the write log nor the queue of
\* scripted responses.
C29_WriteLog == []LogIsWritten /\ [][NotOpenIsRefused]_vars

\* C29 witness: after a write that was logged and a close, a write was refused and
\* the log and the scripted responses are as they were
C29_Witness ==
    /\ Len(cnx.calls) = 4
    /\ cnx.calls[1].op = "open" /\ cnx.calls[2].op = "write"
    /\ cnx.calls[3].op = "close" /\ cnx.calls[4].op = "write"
    /\ cnx.calls[2].arg = PyInt(7) /\ cnx.calls[4].arg = PyStr(<<"*","R","S","T">>)
    /\ cnx.write_log = <<<<"7">>>>
    /\ cnx.responses # <<>>
    /\ result = ReturnedBool(FALSE)

-----------------------------------------------------------------------------
(* The device over its connection: SCPIDevice.write / read / query / open / close *)

\* lines 101-105 of write: what becomes of the validator's outcome cmd_str
Handed(self_cnx, cmd_str, logged) ==
    IF cmd_str.exc = "KeyError"
    THEN [cnx |-> self_cnx, ret |-> Raised("UnknownCommandError", ""), warnings |-> logged]
    ELSE IF cmd_str.exc # "None"
    THEN [cnx |-> self_cnx, ret |-> cmd_str, warnings |-> logged]
    ELSE [cnx |-> Logged(self_cnx, "write", PyStr(cmd_str.value),
                         MockConnection_write(self_cnx, PyStr(cmd_str.value))),
          ret |-> ReturnedBool(TRUE), warnings |-> logged]

\* mutant: the command goes to the connection as the caller gave it, validated or not
SCPIDevice_write_Unvalidated(command_set, self_cnx, cmd, call_args) ==
    Handed(self_cnx, Returned(cmd), NormalizeEach(command_set, cmd, call_args).warnings)

\* SCPIDevice.write(command, *args) over a MockConnection: the arguments are
\* normalised, the command is validated, the string goes to the connection, and True
\* is returned whatever the connection answered
SCPIDevice_write(command_set, self_cnx, cmd, call_args) ==
    Handed(self_cnx,
           ValidateCommand(command_set, cmd, NormalizeEach(command_set, cmd, call_args).value),
           NormalizeEach(command_set, cmd, call_args).warnings)

\* the connection's read, with the call added to the history
ReadFrom(self_cnx, read) ==
    [cnx |-> Logged(self_cnx, "read", PyNone, read), ret |-> read.ret]

\* SCPIDevice.read()
SCPIDevice_read(self_cnx) == ReadFrom(self_cnx, MockConnection_read(self_cnx))

\* line 123 of query: the read after a write that returned
ReadAfter(written, read) ==
    IF written.ret.exc # "None" THEN written
    ELSE [cnx |-> read.cnx, ret |-> read.ret, warnings |-> written.warnings]

\* SCPIDevice.query(command, *args): write, then read; a raising write ends the call
SCPIDevice_query(command_set, self_cnx, cmd, call_args) ==
    ReadAfter(SCPIDevice_write(command_set, self_cnx, cmd, call_args),
              SCPIDevice_read(SCPIDevice_write(command_set, self_cnx, cmd, call_args).cnx))

\* the calls made on the device: known and unknown commands, values in and out of range,
\* tokens, too few and too many arguments
HandedCalls ==
    { [cmd |-> VOLT, args |-> <<PyInt(2)>>], [cmd |-> VOLT, args |-> <<PyInt(70)>>],
      [cmd |-> VOLT, args |-> <<PyStr(TokenMIN)>>], [cmd |-> VOLT, args |-> <<>>],
      [cmd |-> VOLT, args |-> <<PyInt(2), PyFloat(125)>>],
      [cmd |-> VOLT, args |-> <<PyStr(<<"v","o","l","t">>)>>],
      [cmd |-> VOLT \o <<"?">>, args |-> <<>>], [cmd |-> RST, args |-> <<>>],
      [cmd |-> FREQ, args |-> <<PyInt(2)>>],
      [cmd |-> VOLT, args |-> <<PyInt(2), PyStr(TokenMAX)>>],
      [cmd |-> VOLT, args |-> <<PyStr(TokenMAX), PyStr(TokenMAX)>>] }

\* the longest history of connection calls the device model follows
MaxHanded == 3

\* SCPIDevice(name, address, command_file, "MOCK", scripted_responses=...) has
\* returned: the constructor built the connection, opened it, found it open and built
\* the validator on the command file
DeviceBuilt(def_lists, scripts) ==
    /\ \E arg_defs \in def_lists :
        /\ files = DataFiles(DeviceCommands(arg_defs))
        /\ catalog = NewCommandSet(files, DeviceFile).command_set
        /\ loads = NewCommandSet(files, DeviceFile).loads
    /\ pc = "idle"
    /\ command = <<>>
    /\ args = <<>>
    /\ result = NoResult
    /\ warnings = <<>>
    /\ frames = NoCalls
    /\ \E scripted \in scripts :
        cnx = Logged(MockConnection(scripted), "open", PyNone,
                     MockConnection_open(MockConnection(scripted)))

InitHanded == DeviceBuilt(DeviceDefLists, {<<>>, <<PyStr(<<"1">>)>>})

\* a call of the device returns or raises
DeviceCalled(at, call, outcome) ==
    /\ pc' = at
    /\ command' = call.cmd
    /\ args' = call.args
    /\ result' = outcome.ret
    /\ warnings' = outcome.warnings
    /\ cnx' = outcome.cnx
    /\ UNCHANGED <<catalog, files, loads, frames>>

DeviceWrite ==
    /\ pc = "idle"
    /\ Len(cnx.calls) < MaxHanded
    /\ \E call \in HandedCalls :
        DeviceCalled("wrote", call, SCPIDevice_write(catalog, cnx, call.cmd, call.args))

DeviceQuery ==
    /\ pc = "idle"
    /\ Len(cnx.calls) < MaxHanded
    /\ \E call \in HandedCalls :
        DeviceCalled("queried", call, SCPIDevice_query(catalog, cnx, call.cmd, call.args))

\* SCPIDevice.read(), and Device.read of devices/base.py, which is the same line: the
\* connection's read, whatever was written before
DeviceRead ==
    /\ pc = "idle"
    /\ Len(cnx.calls) < MaxHanded
    /\ pc' = "answered"
    /\ command' = <<>>
    /\ args' = <<>>
    /\ result' = SCPIDevice_read(cnx).ret
    /\ warnings' = <<>>
    /\ cnx' = SCPIDevice_read(cnx).cnx
    /\ UNCHANGED <<catalog, files, loads, frames>>

\* Device.write of devices/base.py: __init__ sets self._cmd, write reads
\* self._cmd_validator, so the call ends in AttributeError before the connection
BaseDeviceWrite ==
    /\ pc = "idle"
    /\ \E call \in HandedCalls :
        /\ pc' = "wrote"
        /\ command' = call.cmd
        /\ args' = call.args
        /\ result' = Raised("AttributeError", "")
        /\ warnings' = <<>>
    /\ UNCHANGED <<catalog, files, loads, frames, cnx>>

\* SCPIDevice.open / close / reset_connection
DeviceConnection ==
    /\ pc = "idle"
    /\ Len(cnx.calls) < MaxHanded
    /\ \/ cnx' = Logged(cnx, "open", PyNone, MockConnection_open(cnx))
       \/ cnx' = Logged(cnx, "close", PyNone, MockConnection_close(cnx))
       \/ cnx' = Logged(cnx, "reset", PyNone, MockConnection_reset(cnx))
    /\ UNCHANGED <<catalog, pc, command, args, result, files, loads, warnings, frames>>

NextHanded ==
    \/ DeviceWrite
    \/ DeviceQuery
    \/ DeviceRead
    \/ BaseDeviceWrite
    \/ DeviceConnection
    \/ Return

SpecHanded == InitHanded /\ [][NextHanded]_vars

-----------------------------------------------------------------------------
(* C21, C22: what a device hands to its connection and what its write returns *)

\* the strings handed to the connection's write by a step
HandedBy(before, after) ==
    LET new == SubSeq(after.calls, Len(before.calls) + 1, Len(after.calls))
        writes == SelectSeq(new, LAMBDA call : call.op = "write")
    IN  [i \in 1..Len(writes) |-> writes[i].arg.s]

\* validate_command as the call command', args' makes it
ValidatedFor(cmd, call_args) == ValidateCommand(catalog, cmd, NormalizeEach(catalog, cmd, call_args).value)

DeviceCallStep == pc = "idle" /\ pc' \in {"wrote", "queried"}

HandsValidated ==
    DeviceCallStep =>
        LET cmd_str == ValidatedFor(command', args')
        IN  IF cmd_str.exc = "None" /\ result'.exc = "None"
            THEN HandedBy(cnx, cnx') = <<cmd_str.value>>
            ELSE /\ result'.exc # "None"
                 /\ HandedBy(cnx, cnx') = <<>>
                 /\ cnx' = cnx

\* C21: in any sequence of device write and query calls every string handed to the
\* connection's write is the string a successful validate_command returned for that
\* same call, and a call whose validation fails raises and hands nothing to the
\* connection.
C21_HandsValidated == [][HandsValidated]_vars

\* C21 witness: after a write that handed its validated string, a write whose
\* validation failed has raised with the connection as it was
C21_Witness ==
    /\ pc = "wrote"
    /\ command = VOLT /\ args = <<PyStr(<<"v","o","l","t">>)>>
    /\ result.exc \in {"SCPIArgumentError", "SCPIArgumentValueError"}
    /\ Len(cnx.calls) = 2
    /\ cnx.calls[2].op = "write" /\ cnx.calls[2].arg = PyStr(<<"V","O","L","T"," ","2">>)
    /\ cnx.write_log = <<<<"V","O","L","T"," ","2">>>>

\* C22: the device's write(command, *args) returns True if the write to the connection
\* succeeded and False otherwise, in every connection state open, close and reset
\* reach: what a returning write returns is what the connection's write returned.
C22_WriteReportsOutcome ==
    (pc = "wrote" /\ result.exc = "None") =>
        /\ Last(cnx.calls).op = "write"
        /\ result = Last(cnx.calls).ret

-----------------------------------------------------------------------------
(* SCPIDevice._normalize_set_value called on a constructed device *)

\* the catalogs of the devices whose values are normalised: those of the written
\* devices and two whose range does not unpack into low and high
NormalizeDefLists == DeviceDefLists \cup {<<LongRangeDef>>, <<ShortRangeDef, LevelDef>>}

\* the commands and the values a device is asked to normalise
WriteCommands == {VOLT, VOLT \o <<"?">>, RST, MEAS, FREQ}
WriteVals ==
    { PyInt(0), PyInt(2), PyInt(70), PyFloat(125), PyFloat(27), PyFloat(-5),
      PyStr(TokenMIN), PyStr(<<"m","a","x">>), PyStr(<<"M","i","n">>), PyStr(<<"3">>),
      PyStr(<<"7","_","0">>), PyStr(<<" ","2",".","5","0","\f">>),
      PyStr(<<"v","o","l","t">>), PyBool(TRUE), PyNone }

InitDevice == DeviceBuilt(NormalizeDefLists, {<<>>})

\* _normalize_set_value(cmd, value) runs to its return or raise
Normalize ==
    /\ pc = "idle"
    /\ \E cmd \in WriteCommands, value \in WriteVals :
        LET n == NormalizeSetValue(catalog, cmd, value)
        IN  /\ pc' = "normalized"
            /\ command' = cmd
            /\ args' = <<value>>
            /\ result' = IF n.exc = "None" THEN Returned(<<n.value>>) ELSE Raised(n.exc, "")
            /\ warnings' = n.warnings
    /\ UNCHANGED <<catalog, files, loads, frames, cnx>>

NextDevice == Normalize \/ Return

SpecDevice == InitDevice /\ [][NextDevice]_vars

-----------------------------------------------------------------------------
(* C17..C20: normalisation.  Vocabulary: the definition a position corresponds to *)
(* and the value the rules of normalisation give against it.                      *)

NormalizeDone == pc = "normalized"

\* the set argument definitions of the command called
SetDefs ==
    IF Base(command) \in DOMAIN catalog /\ IsSet(catalog[Base(command)], "set")
    THEN catalog[Base(command)].set.items
    ELSE <<>>

\* position i has a corresponding set definition: the i-th, or the variadic last one
HasPositionDef(i) ==
    \/ i <= Len(SetDefs)
    \/ SetDefs # <<>> /\ Variadic(SetDefs[Len(SetDefs)])
PositionDef(i) == IF i <= Len(SetDefs) THEN SetDefs[i] ELSE SetDefs[Len(SetDefs)]

\* a numeric definition with a declared range of two bounds, and the bounds
Ranged(d) == NumericWithRange(d) /\ Len(d.range.items) = 2
Low(d) == d.range.items[1]
High(d) == d.range.items[2]

IsMIN(v) == v.t = "str" /\ Upper(v.s) = <<"M","I","N">>
IsMAX(v) == v.t = "str" /\ Upper(v.s) = <<"M","A","X">>

\* the number v clamped into the range of d
ClampedInto(d, v) ==
    IF Low(d) # PyNone /\ Tenths(v) < Tenths(Low(d)) THEN Low(d)
    ELSE IF High(d) # PyNone /\ Tenths(v) > Tenths(High(d)) THEN High(d)
    ELSE v

\* what the rules give for value v against definition d
ExpectedAgainst(d, v) ==
    IF IsMIN(v) /\ Low(d) # PyNone THEN Low(d)
    ELSE IF IsMAX(v) /\ High(d) # PyNone THEN High(d)
    ELSE IF IsNumber(v) THEN ClampedInto(d, v)
    ELSE v

\* the set arguments of the command that are numeric with a declared range
RangedArguments == {i \in 1..Len(SetDefs) : Ranged(SetDefs[i])}

\* the value normalize was given and the value it returned
Passed == args[1]
Given == result.value[1]

\* C17 (as claimed): for a numeric set argument with a declared range, normalize
\* replaces the token MIN (any letter case) by the lower bound and MAX by the upper
\* bound when that bound is defined, and validation then succeeds on the
\* substituted value.
C17_TokenSubstituted ==
    NormalizeDone =>
        \A i \in RangedArguments :
            LET d == SetDefs[i]
            IN  (IsMIN(Passed) /\ Low(d) # PyNone) \/ (IsMAX(Passed) /\ High(d) # PyNone)
                => /\ result.exc = "None"
                   /\ PyEq(Given, ExpectedAgainst(d, Passed))
                   /\ ValidateArgument(Given, d).ok

\* C18 (as claimed): for a numeric set argument with range [min, max], normalize
\* returns min for a value below min, max for a value above max and the value
\* unchanged otherwise, so that min <= result <= max.
C18_ClampedIntoRange ==
    NormalizeDone =>
        \A i \in RangedArguments :
            LET d == SetDefs[i]
            IN  IsNumber(Passed) /\ Low(d) # PyNone /\ High(d) # PyNone
                => /\ result.exc = "None"
                   /\ PyEq(Given, ClampedInto(d, Passed))
                   /\ Tenths(Low(d)) <= Tenths(Given)
                   /\ Tenths(Given) <= Tenths(High(d))

\* the value returned is the value passed: the same type and the same content
Unaltered(returned, passed) ==
    /\ returned.t = passed.t
    /\ CASE passed.t = "str" -> returned.s = passed.s
         [] passed.t \in {"int", "float", "bool"} -> returned.n = passed.n
         [] OTHER -> TRUE

\* C19 (as claimed): every call of normalize that returns a value different from its
\* input, by token substitution or by clamping, logs a warning.
C19_AlteredIsWarned ==
    (NormalizeDone /\ result.exc = "None") =>
        (~Unaltered(Given, Passed) => warnings # <<>>)

\* the arguments of a write, each as the rules give it against the definition of its
\* own position; a position without a numeric ranged definition passes through
PositionNormalized ==
    [i \in 1..Len(args) |->
        IF HasPositionDef(i) /\ Ranged(PositionDef(i))
        THEN ExpectedAgainst(PositionDef(i), args[i])
        ELSE args[i]]

\* the write handed the connection the string cmd_str holds, or raised as it does
WroteAs(cmd_str) ==
    IF cmd_str.exc = "None"
    THEN /\ result.exc = "None"
         /\ Last(cnx.calls).op = "write"
         /\ Last(cnx.calls).arg = PyStr(cmd_str.value)
    ELSE result.exc # "None"

\* C20 (as claimed): the value at position i is substituted and clamped against the
\* i-th set argument definition (the variadic one for trailing positions), never
\* against the range of another position's definition: what SCPIDevice.write hands to
\* the connection is the command validated on the values normalised by position.
C20_ByPosition ==
    (pc = "wrote" /\ result.exc # "AttributeError") =>
        WroteAs(ValidateCommand(catalog, command, PositionNormalized))

-----------------------------------------------------------------------------
(* VISAConnection: pylab/communication/VISA.py *)

\* VISAConnection(name, address): no resource yet, status UNKNOWN; calls is the history
\* of the methods called, kept for the properties
VISAConnection ==
    [status |-> "UNKNOWN", resource |-> "None", calls |-> <<>>]

\* a method's outcome: the connection after it, what it returned or raised, the
\* methods of the pyvisa resource it called and what it logged at warning level
Outcome(self, ret, touched) ==
    [self |-> self, ret |-> ret, touched |-> touched, warnings |-> <<>>]

\* what the instrument answers, before strip()
Responses == {<<" ","1"," ">>}

\* what the pyvisa layer does with one call: it answers, or it raises
Answers == {[raises |-> TRUE, text |-> <<>>]} \cup {[raises |-> FALSE, text |-> r] : r \in Responses}
Raises == [raises |-> TRUE, text |-> <<>>]

\* query(command): no try around the resource's query
VISAConnection_query(self, answer) ==
    IF Bool(self) /\ self.resource # "None"
    THEN IF answer.raises THEN Outcome(self, Raised("VisaIOError", ""), <<"query">>)
         ELSE Outcome(self, ReturnedStr(answer.text), <<"query">>)
    ELSE Outcome(self, ReturnedNone, <<>>)

\* open(): the manager opens the resource or raises; the timeout is set; the status is
\* OPEN while *IDN? is queried
VISAConnection_open(self, manager_raises, answer) ==
    IF manager_raises THEN Outcome(self, Raised("VisaIOError", ""), <<>>)
    ELSE LET opened == [self EXCEPT !.resource = "resource", !.status = "OPEN"]
             resp == VISAConnection_query(opened, answer)
         IN  IF resp.ret.exc # "None" THEN Outcome(opened, resp.ret, <<"timeout">> \o resp.touched)
             ELSE IF resp.ret = ReturnedNone
             THEN Outcome([opened EXCEPT !.status = "UNKNOWN"], ReturnedStatus("UNKNOWN"),
                          <<"timeout">> \o resp.touched)
             ELSE Outcome(opened, ReturnedStatus("OPEN"), <<"timeout">> \o resp.touched)

VISAConnection_close(self, close_raises) ==
    IF self.resource # "None"
    THEN LET status == IF close_raises THEN "UNKNOWN" ELSE "CLOSED"
         IN  Outcome([self EXCEPT !.status = status, !.resource = "None"], ReturnedStatus(status), <<"close">>)
    ELSE [Outcome([self EXCEPT !.status = "CLOSED"], ReturnedStatus("CLOSED"), <<>>)
            EXCEPT !.warnings = <<"Tried to close connection that does not exist">>]

\* reset(): close, then open whatever close left; what close logged stays logged
VISAConnection_reset(self, close_raises, manager_raises, answer) ==
    LET closed == VISAConnection_close(self, close_raises)
        opened == VISAConnection_open(closed.self, manager_raises, answer)
    IN  [Outcome(opened.self,
                 IF opened.ret.exc # "None" THEN opened.ret
                 ELSE ReturnedStatus(opened.self.status),
                 closed.touched \o opened.touched)
            EXCEPT !.warnings = closed.warnings]

\* read(): a status that is not OPEN ends the call; an exception of the resource (or of
\* a resource that is None) sets the status UNKNOWN
VISAConnection_read(self, answer) ==
    IF ~Bool(self) THEN Outcome(self, ReturnedNone, <<>>)
    ELSE IF self.resource = "None" THEN Outcome([self EXCEPT !.status = "UNKNOWN"], ReturnedNone, <<>>)
    ELSE IF answer.raises THEN Outcome([self EXCEPT !.status = "UNKNOWN"], ReturnedNone, <<"read">>)
    ELSE Outcome(self, ReturnedStr(Strip(answer.text)), <<"read">>)

\* mutant: a raising resource leaves the status as it was
VISAConnection_write_StatusKept(self, cmd, write_raises) ==
    IF ~Bool(self) THEN Outcome(self, ReturnedBool(FALSE), <<>>)
    ELSE IF self.resource = "None" THEN Outcome(self, ReturnedBool(FALSE), <<>>)
    ELSE IF write_raises THEN Outcome(self, ReturnedBool(FALSE), <<"write">>)
    ELSE Outcome(self, ReturnedBool(TRUE), <<"write">>)

VISAConnection_write(self, cmd, write_raises) ==
    IF ~Bool(self) THEN Outcome(self, ReturnedBool(FALSE), <<>>)
    ELSE IF self.resource = "None" THEN Outcome([self EXCEPT !.status = "UNKNOWN"], ReturnedBool(FALSE), <<>>)
    ELSE IF write_raises THEN Outcome([self EXCEPT !.status = "UNKNOWN"], ReturnedBool(FALSE), <<"write">>)
    ELSE Outcome(self, ReturnedBool(TRUE), <<"write">>)

\* the longest history of calls the model follows
MaxVisaCalls == 4

InitVisa ==
    /\ files = [fname \in {} |-> PyNone]
    /\ catalog = NoCatalog
    /\ loads = <<>>
    /\ pc = "idle"
    /\ command = <<>>
    /\ args = <<>>
    /\ result = NoResult
    /\ warnings = <<>>
    /\ frames = NoCalls
    /\ cnx = VISAConnection

\* one call of a method: the history keeps its name, what the pyvisa layer did, what it
\* returned, the resource methods it called and the status it left
VisaCalled(op, env, outcome) ==
    /\ Len(cnx.calls) < MaxVisaCalls
    /\ cnx' = [outcome.self EXCEPT !.calls =
                 Append(cnx.calls, [op |-> op, env |-> env, ret |-> outcome.ret,
                                    touched |-> outcome.touched, status |-> outcome.self.status])]
    /\ result' = outcome.ret
    /\ warnings' = outcome.warnings
    /\ UNCHANGED <<catalog, pc, command, args, files, loads, frames>>

Env(close_raises, manager_raises, answer) ==
    [close_raises |-> close_raises, manager_raises |-> manager_raises, answer |-> answer]

VisaOpen ==
    \/ VisaCalled("open", Env(FALSE, TRUE, Raises), VISAConnection_open(cnx, TRUE, Raises))
    \/ \E answer \in Answers :
        VisaCalled("open", Env(FALSE, FALSE, answer), VISAConnection_open(cnx, FALSE, answer))

VisaClose ==
    \E close_raises \in BOOLEAN :
        VisaCalled("close", Env(close_raises, FALSE, Raises), VISAConnection_close(cnx, close_raises))

VisaReset ==
    \E close_raises \in BOOLEAN :
        \/ VisaCalled("reset", Env(close_raises, TRUE, Raises),
                      VISAConnection_reset(cnx, close_raises, TRUE, Raises))
        \/ \E answer \in Answers :
            VisaCalled("reset", Env(close_raises, FALSE, answer),
                       VISAConnection_reset(cnx, close_raises, FALSE, answer))

VisaRead ==
    \E answer \in Answers :
        VisaCalled("read", Env(FALSE, FALSE, answer), VISAConnection_read(cnx, answer))

VisaWrite ==
    \E write_raises \in BOOLEAN :
        VisaCalled("write", Env(FALSE, FALSE, [raises |-> write_raises, text |-> <<>>]),
                   VISAConnection_write(cnx, PyStr(RST), write_raises))

VisaQuery ==
    \E answer \in Answers :
        VisaCalled("query", Env(FALSE, FALSE, answer), VISAConnection_query(cnx, answer))

NextVisa ==
    \/ VisaOpen
    \/ VisaClose
    \/ VisaReset
    \/ VisaRead
    \/ VisaWrite
    \/ VisaQuery

SpecVisa == InitVisa /\ [][NextVisa]_vars

-----------------------------------------------------------------------------
(* C30: a VISAConnection after a failed read or write *)

\* call i was a read or a write in which the resource raised
Faulted(calls, i) ==
    /\ calls[i].op \in {"read", "write"}
    /\ calls[i].touched # <<>>
    /\ calls[i].env.answer.raises

\* an open() or reset() between calls i and j has left the status OPEN
Reopened(calls, i, j) ==
    \E k \in (i + 1)..(j - 1) : calls[k].op \in {"open", "reset"} /\ calls[k].status = "OPEN"

\* the call was refused: None from read and query, False from write, no resource method
\* called
Refused(call) ==
    /\ call.ret = IF call.op = "write" THEN ReturnedBool(FALSE) ELSE ReturnedNone
    /\ call.touched = <<>>

\* C30: after a VISAConnection read or write in which the underlying resource raises
\* the status is UNKNOWN, and every later read, write or query returns None / False
\* without touching the resource until a later open() or reset() brings the status
\* back to OPEN.
C30_FaultedIsRefused ==
    \A i \in 1..Len(cnx.calls) :
        Faulted(cnx.calls, i) =>
            /\ cnx.calls[i].status = "UNKNOWN"
            /\ \A j \in (i + 1)..Len(cnx.calls) :
                (cnx.calls[j].op \in {"read", "write", "query"} /\ ~Reopened(cnx.calls, i, j))
                    => Refused(cnx.calls[j])

\* C30 witness: the connection was opened, a write raised in the resource, the read
\* after it was refused, and a reset brought the status back to OPEN
C30_Witness ==
    /\ Len(cnx.calls) = 4
    /\ cnx.calls[1].op = "open" /\ cnx.calls[1].status = "OPEN"
    /\ cnx.calls[2].op = "write" /\ Faulted(cnx.calls, 2)
    /\ cnx.calls[3].op = "read" /\ Refused(cnx.calls[3])
    /\ cnx.calls[4].op = "reset" /\ cnx.status = "OPEN"

-----------------------------------------------------------------------------
(* Response parsing: parse_response, after section 4.6 of the specification *)
(* (the repository's tests call it; its code is not among the sources)       *)

\* text.split(sep): the parts between the separators, empty parts kept
RECURSIVE Split(_, _)
Split(text, sep) ==
    IF \A i \in 1..Len(text) : text[i] # sep THEN <<text>>
    ELSE LET at == CHOOSE i \in 1..Len(text) : text[i] = sep /\ \A j \in 1..(i - 1) : text[j] # sep
         IN  <<SubSeq(text, 1, at - 1)>> \o Split(SubSeq(text, at + 1, Len(text)), sep)

\* mutant: the parts are taken as they stand between the commas, blanks included
Trimmed_AsIs(parts) == parts

\* whitespace trimmed per part
Trimmed(parts) == [i \in 1..Len(parts) |-> Strip(parts[i])]

\* the command's name without query marker and without trailing suffix digits
RECURSIVE StripSuffixDigits(_)
StripSuffixDigits(name) ==
    IF name # <<>> /\ IsDigit(name[Len(name)]) THEN StripSuffixDigits(SubSeq(name, 1, Len(name) - 1))
    ELSE name

ResponseBase(cmd) == StripSuffixDigits(Base(cmd))

\* the response definitions of a command definition; none when the field is absent
ResponseFields(cmd_def) == IF IsSet(cmd_def, "response") THEN cmd_def.response.items ELSE <<>>

\* one part parsed against its field definition: the typed value, by the type rules of
\* argument validation, Bool taking ON / TRUE / 1 as true and OFF / FALSE / 0 as false
ParseField(part, field) ==
    LET typed ==
            CASE field.type = "int" -> PyIntOf(PyStr(part))
              [] field.type = "float" -> PyFloatOf(PyStr(part))
              [] field.type = "bool" ->
                    IF Upper(part) \in {<<"O","N">>, <<"T","R","U","E">>, <<"1">>}
                    THEN Converted(PyBool(TRUE))
                    ELSE IF Upper(part) \in {<<"O","F","F">>, <<"F","A","L","S","E">>, <<"0">>}
                    THEN Converted(PyBool(FALSE))
                    ELSE NotConverted("ValueError")
              [] OTHER -> Converted(PyStr(part))
    IN  IF typed.exc # "None" THEN Raised("ArgumentTypeError", "")
        ELSE LET checked == ValidateArgument(typed.num, field)
             IN  IF checked.ok THEN Returned(<<typed.num>>)
                 ELSE IF checked.kind = "value" THEN Raised("ArgumentValueError", "")
                 ELSE Raised("ArgumentTypeError", "")

\* the parts parsed one by one in field order; the first part that fails ends the call
RECURSIVE ParseFields(_, _)
ParseFields(parts, fields) ==
    IF parts = <<>> THEN Returned(<<>>)
    ELSE LET first == ParseField(Head(parts), Head(fields))
             rest == ParseFields(Tail(parts), Tail(fields))
         IN  IF first.exc # "None" THEN first
             ELSE IF rest.exc # "None" THEN rest
             ELSE Returned(first.value \o rest.value)

\* parse_response(command, raw_text)
ParseResponse(command_set, cmd, raw_text) ==
    IF ResponseBase(cmd) \notin DOMAIN command_set THEN Raised("UnknownCommand", "")
    ELSE LET fields == ResponseFields(command_set[ResponseBase(cmd)])
             parts == Trimmed(Split(raw_text, ","))
         IN  IF Len(fields) = 0 THEN Returned(<<PyStr(raw_text)>>)
             ELSE IF Len(fields) = 1 THEN ParseField(Strip(raw_text), fields[1])
             ELSE IF Len(parts) # Len(fields) THEN Raised("ResponseShapeMismatch", "")
             ELSE ParseFields(parts, fields)

\* response shapes, after test_parse_responce_multi, and the texts an instrument sends
MULTI == <<"M","U","L","T","I">>
LetterField == [type |-> "str", values |-> PyList(<<PyStr(<<"A">>), PyStr(<<"B">>)>>)]
FieldLists ==
    { <<[type |-> "int"], [type |-> "float"], LetterField>>,
      <<[type |-> "int"], [type |-> "float"]>>,
      <<[type |-> "bool"], LetterField>>,
      <<[type |-> "float"]>>,
      <<>> }

ResponseCommands(fields) ==
    [name \in {MULTI} |-> [set |-> PyNone, query |-> PyList(<<>>), response |-> PyList(fields)]]

RawTexts ==
    { <<"1",",","2",".","5",",","A">>, <<"1",",","2",".","5",",","X">>,
      <<"1",",","2",".","5">>, <<" ","1"," ",","," ","2",".","5"," ",","," ","b"," ">>,
      <<"1",",","2",".","5",",","A",",","B">>, <<>>, <<"O","N",",","A">>,
      <<"o","f","f",","," ","B">>, <<"x",",","2",".","5",",","A">>, <<"1",",",",","A">>,
      <<"2",".","5">>, <<"7",",","3">>, <<"1",",","B">> }

ResponseCommandTokens == {MULTI \o <<"?">>, MULTI, MULTI \o <<"2","?">>, FREQ \o <<"?">>}

InitResponse ==
    \E fields \in FieldLists :
        /\ files = DataFiles(ResponseCommands(fields))
        /\ Constructed(files)

\* parse_response(cmd, raw_text) runs to its return
ParseResponseCall ==
    /\ pc = "idle"
    /\ \E cmd \in ResponseCommandTokens, raw_text \in RawTexts :
        /\ pc' = "response"
        /\ command' = cmd
        /\ args' = <<PyStr(raw_text)>>
        /\ result' = ParseResponse(catalog, cmd, raw_text)
    /\ UNCHANGED <<catalog, files, loads, warnings, frames, cnx>>

NextResponse == ParseResponseCall \/ Return

SpecResponse == InitResponse /\ [][NextResponse]_vars

-----------------------------------------------------------------------------
(* C23: responses of several fields *)

\* the places of the commas of a text, and the place of its k-th comma (0 before the
\* first part, one past the end after the last)
Commas(text) == {p \in 1..Len(text) : text[p] = ","}
CommaAt(text, k) ==
    IF k = 0 THEN 0
    ELSE IF k > Cardinality(Commas(text)) THEN Len(text) + 1
    ELSE CHOOSE p \in Commas(text) : Cardinality({q \in Commas(text) : q <= p}) = k

\* the i-th part of a text: what stands between its (i-1)-th and its i-th comma
Part(text, i) == SubSeq(text, CommaAt(text, i - 1) + 1, CommaAt(text, i) - 1)

\* the part without the blanks around it: from its first to its last character that
\* is not a blank
Inner(part) ==
    LET solid == {p \in 1..Len(part) : ~IsSpace(part[p])}
    IN  IF solid = {} THEN <<>>
        ELSE SubSeq(part, CHOOSE p \in solid : \A q \in solid : p <= q,
                          CHOOSE p \in solid : \A q \in solid : q <= p)

RawText == args[1].s
Fields == ResponseFields(catalog[ResponseBase(command)])
SeveralFields == pc = "response" /\ ResponseBase(command) \in DOMAIN catalog /\ Len(Fields) > 1
PartCount == Cardinality(Commas(RawText)) + 1

\* C23: for a command with N > 1 response fields parse_response splits the raw text on
\* commas, trims each part, fails with ResponseShapeMismatch when the number of parts
\* differs from N, and otherwise returns the N parts, each parsed against its field
\* definition, in field order.
C23_PartsInFieldOrder ==
    SeveralFields =>
        IF PartCount # Len(Fields) THEN result.exc = "ResponseShapeMismatch"
        ELSE IF \A i \in 1..Len(Fields) : ParseField(Inner(Part(RawText, i)), Fields[i]).exc = "None"
        THEN /\ result.exc = "None"
             /\ Len(result.value) = Len(Fields)
             /\ \A i \in 1..Len(Fields) :
                    <<result.value[i]>> = ParseField(Inner(Part(RawText, i)), Fields[i]).value
        ELSE result.exc \in {"ArgumentTypeError", "ArgumentValueError"}

\* C23 witness: three fields, three parts with blanks around them, returned typed and
\* in field order
C23_Witness ==
    /\ SeveralFields /\ Len(Fields) = 3
    /\ RawText = <<" ","1"," ",","," ","2",".","5"," ",","," ","b"," ">>
    /\ result.exc = "None" /\ Len(result.value) = 3
    /\ result.value[1] = PyInt(1) /\ result.value[2] = PyFloat(25)
    /\ result.value[3] = PyStr(<<"b">>)

=============================================================================
